---- MODULE Spec2Model ----
(***************************************************************************)
(* Model of the EIA client's data-retrieval pipeline:                      *)
(*   - EIAClient.get_data      (query parameter construction)              *)
(*   - EIAClient._request      (retry / backoff, error classification)     *)
(*   - EIAClient.get_all_data  (paginated generator)                       *)
(* Strings that are built or parsed are sequences of one-character         *)
(* strings, so that formatting and parsing are real computations.          *)
(***************************************************************************)
EXTENDS Integers, Sequences, FiniteSets, TLC

(* ------------------------------------------------------------------ *)
(* Bounds of the model                                                *)
(* ------------------------------------------------------------------ *)
\* largest number of records the remote source holds
MaxTotal == 7
\* largest configured page size
MaxPage == 3
\* largest positive cap (max_records)
MaxCap == 5
\* largest configured max_retries
MaxRetries == 4
\* largest number of optional items (columns, facet values, sort entries,
\* scalar arguments) one get_data call carries
MaxItems == 4
MaxVerts == 4
MaxGens == 2
MaxIdLen == 2

Min(a, b) == IF a <= b THEN a ELSE b
Max(a, b) == IF a >= b THEN a ELSE b

\* Python's None for an optional value; a present value v is <<v>>
None == <<>>
Some(v) == <<v>>

RECURSIVE Pow2(_)
Pow2(n) == IF n <= 0 THEN 1 ELSE 2 * Pow2(n - 1)

SeqsUpTo(S, n) == UNION {[1..k -> S] : k \in 0..n}

Range(s) == {s[i] : i \in 1..Len(s)}

(* ------------------------------------------------------------------ *)
(* Wire keys of get_data (client.py 198-227), as character sequences  *)
(* ------------------------------------------------------------------ *)
K_api_key == <<"a","p","i","_","k","e","y">>
K_data == <<"d","a","t","a","[","]">>
K_frequency == <<"f","r","e","q","u","e","n","c","y">>
K_start == <<"s","t","a","r","t">>
K_end == <<"e","n","d">>
K_length == <<"l","e","n","g","t","h">>
K_offset == <<"o","f","f","s","e","t">>
P_facets == <<"f","a","c","e","t","s","[">>
S_facets == <<"]","[","]">>
P_sort == <<"s","o","r","t","[">>
S_column == <<"]","[","c","o","l","u","m","n","]">>
S_direction == <<"]","[","d","i","r","e","c","t","i","o","n","]">>
D_desc == <<"d","e","s","c">>
D_asc == <<"a","s","c">>

DigitChars == <<"0","1","2","3","4","5","6","7","8","9">>

\* str(i) for a non-negative integer, as the f-string formats it
RECURSIVE DecStr(_)
DecStr(i) ==
    IF i < 10 THEN <<DigitChars[i + 1]>>
    ELSE DecStr(i \div 10) \o <<DigitChars[(i % 10) + 1]>>

\* f"facets[{facet_name}][]"
FacetKey(facet_name) == P_facets \o facet_name \o S_facets

\* f"sort[{i}][column]" and f"sort[{i}][direction]"
SortColumnKeyUnindexed(i) == P_sort \o DecStr(0) \o S_column
SortColumnKey(i) == P_sort \o DecStr(i) \o S_column
SortDirectionKey(i) == P_sort \o DecStr(i) \o S_direction

\* s.get("direction", "desc"): a sort entry is [column, direction] with
\* direction None when the key is missing
SortDirection(s) == IF s.direction = None THEN D_desc ELSE s.direction[1]

\* EIAConfig.page_size default, the remote page-size ceiling
DefaultPageSize == 5000

(* ------------------------------------------------------------------ *)
(* EIAClient.get_data: the (key, value) pair list                     *)
(* An absent string argument and "" are both <<>> (both falsy); an    *)
(* absent length/offset and 0 are both 0 (both falsy).                *)
(* ------------------------------------------------------------------ *)
RECURSIVE ColumnPairs(_)
ColumnPairs(cols) ==
    IF cols = <<>> THEN <<>>
    ELSE <<[key |-> K_data, val |-> Head(cols)]>> \o ColumnPairs(Tail(cols))

RECURSIVE ValuePairs(_, _)
ValuePairs(facet_name, values) ==
    IF values = <<>> THEN <<>>
    ELSE <<[key |-> FacetKey(facet_name), val |-> Head(values)]>>
            \o ValuePairs(facet_name, Tail(values))

\* facets is a dict in insertion order: a sequence of [name, values]
RECURSIVE FacetPairs(_)
FacetPairs(facets) ==
    IF facets = <<>> THEN <<>>
    ELSE ValuePairs(Head(facets).name, Head(facets).values)
            \o FacetPairs(Tail(facets))

RECURSIVE SortPairsFrom(_, _)
SortPairsFrom(i, sort) ==
    IF sort = <<>> THEN <<>>
    ELSE << [key |-> SortColumnKey(i), val |-> Head(sort).column],
            [key |-> SortDirectionKey(i), val |-> SortDirection(Head(sort))] >>
            \o SortPairsFrom(i + 1, Tail(sort))

SortPairs(sort) == SortPairsFrom(0, sort)

StrPair(key, s) == IF s = <<>> THEN <<>> ELSE <<[key |-> key, val |-> s]>>

LengthPair(length, page_size) ==
    IF length = 0 THEN <<>>
    ELSE <<[key |-> K_length, val |-> Min(length, page_size)]>>

OffsetPair(offset) ==
    IF offset = 0 THEN <<>> ELSE <<[key |-> K_offset, val |-> offset]>>

BuildParamsSortFirst(a, api_key, page_size) ==
    <<[key |-> K_api_key, val |-> api_key]>>
        \o ColumnPairs(a.data_columns)
        \o SortPairs(a.sort)
        \o FacetPairs(a.facets)
        \o StrPair(K_frequency, a.frequency)
        \o StrPair(K_start, a.start)
        \o StrPair(K_end, a.end)
        \o LengthPair(a.length, page_size)
        \o OffsetPair(a.offset)

BuildParams(a, api_key, page_size) ==
    <<[key |-> K_api_key, val |-> api_key]>>
        \o ColumnPairs(a.data_columns)
        \o FacetPairs(a.facets)
        \o StrPair(K_frequency, a.frequency)
        \o StrPair(K_start, a.start)
        \o StrPair(K_end, a.end)
        \o SortPairs(a.sort)
        \o LengthPair(a.length, page_size)
        \o OffsetPair(a.offset)

(* ------------------------------------------------------------------ *)
(* The remote endpoint's reading of a pair list                       *)
(* ------------------------------------------------------------------ *)
HasPrefix(s, p) == Len(s) >= Len(p) /\ SubSeq(s, 1, Len(p)) = p
HasSuffix(s, p) == Len(s) >= Len(p) /\ SubSeq(s, Len(s) - Len(p) + 1, Len(s)) = p
Between(s, p, q) == SubSeq(s, Len(p) + 1, Len(s) - Len(q))
Framed(s, p, q) == Len(s) >= Len(p) + Len(q) /\ HasPrefix(s, p) /\ HasSuffix(s, q)

DigitValue(c) == CHOOSE d \in 0..9 : DigitChars[d + 1] = c
IsDigits(s) == s # <<>> /\ \A i \in 1..Len(s) : \E d \in 0..9 : DigitChars[d + 1] = s[i]

RECURSIVE ParseDec(_)
ParseDec(s) ==
    IF Len(s) = 1 THEN DigitValue(s[1])
    ELSE 10 * ParseDec(SubSeq(s, 1, Len(s) - 1)) + DigitValue(s[Len(s)])

IsSortColumnKey(k) == Framed(k, P_sort, S_column) /\ IsDigits(Between(k, P_sort, S_column))
IsSortDirectionKey(k) ==
    Framed(k, P_sort, S_direction) /\ IsDigits(Between(k, P_sort, S_direction))

\* the kind of a wire key
KindOf(k) ==
    CASE k = K_api_key -> "api_key"
      [] k = K_data -> "data"
      [] k = K_frequency -> "frequency"
      [] k = K_start -> "start"
      [] k = K_end -> "end"
      [] k = K_length -> "length"
      [] k = K_offset -> "offset"
      [] IsSortColumnKey(k) -> "sort_column"
      [] IsSortDirectionKey(k) -> "sort_direction"
      [] Framed(k, P_facets, S_facets) -> "facet"
      [] OTHER -> "unknown"

FacetNameOf(k) == Between(k, P_facets, S_facets)
SortIndexOf(k) ==
    IF IsSortColumnKey(k) THEN ParseDec(Between(k, P_sort, S_column))
    ELSE ParseDec(Between(k, P_sort, S_direction))

PairsOfKind(params, kind) == SelectSeq(params, LAMBDA p : KindOf(p.key) = kind)
ValuesOf(pairs) == [i \in 1..Len(pairs) |-> pairs[i].val]

\* data[] values in order of arrival
ParsedColumns(params) == ValuesOf(PairsOfKind(params, "data"))

\* the facets[<name>][] values of one name, in order of arrival
ParsedFacetValues(params, name) ==
    ValuesOf(SelectSeq(params,
        LAMBDA p : KindOf(p.key) = "facet" /\ FacetNameOf(p.key) = name))

ParsedFacetNames(params) ==
    {FacetNameOf(params[i].key) : i \in {j \in 1..Len(params) : KindOf(params[j].key) = "facet"}}

\* values of the sort pairs of one kind that carry index i
SortValuesAt(params, kind, i) ==
    ValuesOf(SelectSeq(params,
        LAMBDA p : KindOf(p.key) = kind /\ SortIndexOf(p.key) = i))

ParsedSortIndices(params) ==
    {SortIndexOf(params[i].key) :
        i \in {j \in 1..Len(params) :
                 KindOf(params[j].key) \in {"sort_column", "sort_direction"}}}

\* a scalar integer parameter, with the remote's default when absent
ParamInt(params, key, default) ==
    LET hits == SelectSeq(params, LAMBDA p : p.key = key)
    IN  IF hits = <<>> THEN default ELSE hits[1].val

\* The source holds records 1..total at positions 0..total-1. A source
\* that serves full pages returns min(length, total - offset) records;
\* one that may serve short pages returns any non-empty part of them.
PageCounts(total, full, offset, length) ==
    LET avail == Min(length, Max(total - offset, 0))
    IN  IF full \/ avail = 0 THEN {avail} ELSE 1..avail

PageData(offset, n) == [i \in 1..n |-> offset + i]

(* ------------------------------------------------------------------ *)
(* State                                                              *)
(* ------------------------------------------------------------------ *)
VARIABLES
    \* --- EIAClient.get_all_data (one generator) and its remote source
    page_size,      \* self._config.page_size
    max_records,    \* None or Some(n)
    src_total,      \* records the remote source holds ("total available")
    src_full,       \* TRUE: the source serves full pages
    pc,             \* position of the generator
    offset,         \* local offset
    total_fetched,  \* local total_fetched
    response,       \* the last page: [data, total]
    idx,            \* position of the for loop in response.data
    yielded,        \* records handed to the consumer, in order
    requests,       \* offsets of the page requests received by the remote
    received,       \* len(data) of every page the generator received
    \* --- EIAClient._request (one call)
    max_retries,    \* self._config.max_retries
    attempt,        \* loop variable of range(max_retries)
    outcomes,       \* outcome of every attempt made, in order
    sleeps,         \* <<attempt index, delay>> of every time.sleep, in order
    r_pc,           \* "loop", "returned" or "raised"
    r_result,       \* what was returned or raised
    \* --- EIAClient.get_data (one call)
    q_args,         \* the arguments of the call
    q_pc,           \* "call" or "sent"
    q_params,       \* the pair list handed to _request
    q_page_size,    \* self._config.page_size of the client called
    \* --- the record mappers (from_dict of the domain entities)
    m_kind,         \* "generator" or "fuel": the entity class called
    m_raw,          \* the raw mapping passed as data
    m_pc,           \* "call", "mapped" or "raised"
    m_entity,       \* None, or Some(the entity returned)
    m_error,        \* "" or the name of the exception raised
    \* --- point_in_polygon (nested in get_polygon_analytics)
    pip_polygon,    \* the vertex list, a sequence of <<lat, lon>>
    pip_lat,        \* the test point
    pip_lon,
    pip_pc,         \* "call", "done" or "raised"
    pip_inside,     \* the boolean returned
    \* --- get_generators_in_bounds and get_polygon_analytics
    geo_upstream,   \* the generators the remote source holds, in order
    geo_failing,    \* None, or Some(the source whose fetch raises)
    geo_call,       \* "bounds" or "polygon": the handler called
    geo_args,       \* the arguments of get_generators_in_bounds
    geo_coords,     \* the parsed coordinates of get_polygon_analytics
    geo_pc,         \* "call" or "done"
    geo_generators, \* the list get_generators_in_bounds returned
    geo_stats,      \* the aggregates get_polygon_analytics returned
    \* --- the generator identifier of get_generators(_in_bounds)
    id_first,       \* <<plant_id, generator_id>> of one generator
    id_second,      \* <<plant_id, generator_id>> of another generator
    id_pc,          \* "call" or "done"
    id_ids,         \* the two identifiers built
    \* --- utils.pagination.paginate (one generator) and its fetch_func
    pg_kind,        \* what fetch_func returns: PaginatedResponse or a raw dict
    pg_page_size,   \* page_size
    pg_max_records, \* None or Some(n)
    pg_src_total,   \* records the source behind fetch_func holds
    pg_src_full,    \* TRUE: the source serves full pages
    pg_pc,          \* position of the generator
    pg_offset,      \* local offset
    pg_total_fetched,\* local total_fetched
    pg_response,    \* the last response of fetch_func
    pg_idx,         \* position of the for loop in data
    pg_yielded,     \* records handed to the consumer, in order
    pg_requests,    \* offsets fetch_func was called with
    pg_received,    \* len(data) of every page received
    \* --- get_all_data over _request: the attempts of earlier page requests
    prev_attempts,  \* most attempts any earlier page request of the fetch made
    \* --- two get_all_data generators of one client, interleaved
    t_page_size,    \* self._config.page_size of the shared client
    t_max_records,  \* per fetch: None or Some(n)
    t_src_total,    \* per fetch: records its route holds
    t_pc,           \* per fetch: position of the generator
    t_offset,       \* per cursor: local offset
    t_total_fetched,\* per cursor: local total_fetched
    t_response,     \* per fetch: data of the last page
    t_idx,          \* per fetch: position of the for loop in data
    t_yielded,      \* per fetch: records handed to its consumer
    t_requests,     \* per fetch: offsets of its page requests
    t_in_flight,    \* per fetch: page requests sent and not yet answered
    \* --- the per-region, per-state and per-source loops of backend/main.py
    agg_call,       \* which handler runs
    agg_keys,       \* region_list, state_list or source_list
    agg_failing,    \* the fetches (key, fuel) that raise
    agg_exception,  \* the exception a failing fetch raises
    agg_min_capacity,\* min_capacity of get_generators
    agg_pc,         \* position of the handler
    agg_results,    \* the list the handler returns
    agg_raised,     \* the exception that left the handler, "" if none
    \* --- get_polygon_analytics: the coordinates query parameter
    co_input,       \* the coordinates text, as what json.loads makes of it
    co_pc,          \* position of the handler
    co_outcome,     \* HTTP status of the answer, or the exception that left the handler
    co_stats        \* the statistics returned

fetchVars == <<page_size, max_records, src_total, src_full, pc, offset,
               total_fetched, response, idx, yielded, requests, received>>
retryVars == <<max_retries, attempt, outcomes, sleeps, r_pc, r_result>>
queryVars == <<q_args, q_pc, q_params, q_page_size>>
mapVars == <<m_kind, m_raw, m_pc, m_entity, m_error>>
pipVars == <<pip_polygon, pip_lat, pip_lon, pip_pc, pip_inside>>
geoVars == <<geo_upstream, geo_failing, geo_call, geo_args, geo_coords,
             geo_pc, geo_generators, geo_stats>>
idVars == <<id_first, id_second, id_pc, id_ids>>
pgVars == <<pg_kind, pg_page_size, pg_max_records, pg_src_total, pg_src_full, pg_pc,
            pg_offset, pg_total_fetched, pg_response, pg_idx, pg_yielded, pg_requests, pg_received>>
pagesVars == <<prev_attempts>>
twoVars == <<t_page_size, t_max_records, t_src_total, t_pc, t_offset,
             t_total_fetched, t_response, t_idx, t_yielded, t_requests, t_in_flight>>
aggVars == <<agg_call, agg_keys, agg_failing, agg_exception,
             agg_min_capacity, agg_pc, agg_results, agg_raised>>
coVars == <<co_input, co_pc, co_outcome, co_stats>>
vars ==
    <<fetchVars, retryVars, queryVars, mapVars, pipVars, geoVars,
      idVars, pgVars, pagesVars, twoVars, aggVars, coVars>>

\* what the steps of one operation leave alone: the other operations' state
notFetch ==
    <<retryVars, queryVars, mapVars, pipVars, geoVars,
      idVars, pgVars, pagesVars, twoVars, aggVars, coVars>>
notRetry ==
    <<fetchVars, queryVars, mapVars, pipVars, geoVars,
      idVars, pgVars, pagesVars, twoVars, aggVars, coVars>>
notQuery ==
    <<fetchVars, retryVars, mapVars, pipVars, geoVars,
      idVars, pgVars, pagesVars, twoVars, aggVars, coVars>>
notMap ==
    <<fetchVars, retryVars, queryVars, pipVars, geoVars,
      idVars, pgVars, pagesVars, twoVars, aggVars, coVars>>
notPip ==
    <<fetchVars, retryVars, queryVars, mapVars, geoVars,
      idVars, pgVars, pagesVars, twoVars, aggVars, coVars>>
notGeo ==
    <<fetchVars, retryVars, queryVars, mapVars, pipVars,
      idVars, pgVars, pagesVars, twoVars, aggVars, coVars>>
notId ==
    <<fetchVars, retryVars, queryVars, mapVars, pipVars,
      geoVars, pgVars, pagesVars, twoVars, aggVars, coVars>>
notPaginate ==
    <<fetchVars, retryVars, queryVars, mapVars, pipVars,
      geoVars, idVars, pagesVars, twoVars, aggVars, coVars>>
notPages ==
    <<fetchVars, retryVars, queryVars, mapVars, pipVars,
      geoVars, idVars, pgVars, twoVars, aggVars, coVars>>

ApiKey == <<"k">>
NoPage == [data |-> <<>>, total |-> 0]

IdleFetch ==
    /\ page_size = 1 /\ max_records = None /\ src_total = 0 /\ src_full = TRUE
    /\ pc = "idle" /\ offset = 0 /\ total_fetched = 0 /\ response = NoPage
    /\ idx = 0 /\ yielded = <<>> /\ requests = <<>> /\ received = <<>>

IdleRetry ==
    /\ max_retries = 0 /\ attempt = 0 /\ outcomes = <<>> /\ sleeps = <<>>
    /\ r_pc = "idle" /\ r_result = "none"

NoArgs ==
    [data_columns |-> <<>>, facets |-> <<>>, frequency |-> <<>>, start |-> <<>>,
     end |-> <<>>, sort |-> <<>>, length |-> 0, offset |-> 0]

IdleQuery ==
    /\ q_args = NoArgs /\ q_pc = "idle" /\ q_params = <<>>
    /\ q_page_size = DefaultPageSize

\* A loosely typed value of a raw mapping: the key is absent, or it holds
\* null, a number (v, in tenths) or a string (s, a character sequence)
Absent == [t |-> "absent", v |-> 0, s |-> <<>>]
Null == [t |-> "null", v |-> 0, s |-> <<>>]
Num(v) == [t |-> "num", v |-> v, s |-> <<>>]
Str(s) == [t |-> "str", v |-> 0, s |-> s]

NoRaw ==
    [capacity |-> Absent, summer |-> Absent, winter |-> Absent,
     oym |-> Absent, latitude |-> Absent, longitude |-> Absent,
     value |-> Absent]

IdleMap ==
    /\ m_kind = "none" /\ m_raw = NoRaw /\ m_pc = "idle"
    /\ m_entity = None /\ m_error = ""

IdlePip ==
    /\ pip_polygon = <<>> /\ pip_lat = 0 /\ pip_lon = 0
    /\ pip_pc = "idle" /\ pip_inside = FALSE

NoBounds ==
    [min_lat |-> 0, max_lat |-> 0, min_lon |-> 0, max_lon |-> 0,
     energy_source |-> None, limit |-> 0]
NoStats ==
    [total_generators |-> 0, solar_count |-> 0, wind_count |-> 0,
     solar_capacity_mw |-> 0, wind_capacity_mw |-> 0, total_capacity_mw |-> 0]

IdleGeo ==
    /\ geo_upstream = <<>> /\ geo_failing = None /\ geo_call = "none"
    /\ geo_args = NoBounds /\ geo_coords = <<>> /\ geo_pc = "idle"
    /\ geo_generators = <<>> /\ geo_stats = NoStats

IdleId ==
    /\ id_first = <<<<>>, <<>>>> /\ id_second = <<<<>>, <<>>>>
    /\ id_pc = "idle" /\ id_ids = <<<<>>, <<>>>>

NoResponse == [kind |-> "dict", data |-> <<>>, total |-> None, offset |-> 0]

IdlePaginate ==
    /\ pg_kind = "dict" /\ pg_page_size = 1 /\ pg_max_records = None
    /\ pg_src_total = 0 /\ pg_src_full = TRUE /\ pg_pc = "idle"
    /\ pg_offset = 0 /\ pg_total_fetched = 0 /\ pg_response = NoResponse
    /\ pg_idx = 0 /\ pg_yielded = <<>> /\ pg_requests = <<>>
    /\ pg_received = <<>>

IdlePages ==
    /\ prev_attempts = 0

\* the two generators a consumer holds on one client
Fetches == {1, 2}

IdleTwo ==
    /\ t_page_size = 1
    /\ t_max_records = [f \in Fetches |-> None]
    /\ t_src_total = [f \in Fetches |-> 0]
    /\ t_pc = [f \in Fetches |-> "idle"]
    /\ t_offset = [f \in Fetches |-> 0]
    /\ t_total_fetched = [f \in Fetches |-> 0]
    /\ t_response = [f \in Fetches |-> <<>>]
    /\ t_idx = [f \in Fetches |-> 0]
    /\ t_yielded = [f \in Fetches |-> <<>>]
    /\ t_requests = [f \in Fetches |-> <<>>]
    /\ t_in_flight = [f \in Fetches |-> 0]

IdleAgg ==
    /\ agg_call = "none" /\ agg_keys = <<>> /\ agg_failing = {}
    /\ agg_exception = "" /\ agg_min_capacity = 0 /\ agg_pc = "idle"
    /\ agg_results = <<>> /\ agg_raised = ""

\* a text json.loads rejects
NotJson == [t |-> "not_json", items |-> <<>>]

IdleCoords ==
    /\ co_input = NotJson /\ co_pc = "idle" /\ co_outcome = ""
    /\ co_stats = NoStats

(* ------------------------------------------------------------------ *)
(* EIAClient.get_all_data                                             *)
(* ------------------------------------------------------------------ *)
\* "max_records and total_fetched >= max_records": None and 0 are falsy
CapReachedLate(cap, fetched) ==
    /\ cap # None
    /\ cap[1] # 0
    /\ fetched > cap[1]
CapReached(cap, fetched) ==
    /\ cap # None
    /\ cap[1] # 0
    /\ fetched >= cap[1]

\* "len(data) < self._config.page_size"
ShortPage(data, size) == Len(data) < size

\* "offset += len(data)"
NextOffsetStuck(off, data) == off
NextOffset(off, data) == off + Len(data)

\* the arguments get_all_data passes to get_data (no filter is modelled)
PageArgs(size, off) == [NoArgs EXCEPT !.length = size, !.offset = off]

\* what the remote answers to a pair list
RemoteResponses(params) ==
    LET off == ParamInt(params, K_offset, 0)
        len == ParamInt(params, K_length, DefaultPageSize)
    IN  {[data |-> PageData(off, n), total |-> src_total] :
            n \in PageCounts(src_total, src_full, off, len)}

InitFetch ==
    /\ page_size \in 1..MaxPage
    /\ max_records \in {None} \cup {Some(n) : n \in 0..MaxCap}
    /\ src_total \in 0..MaxTotal
    /\ src_full \in BOOLEAN
    /\ pc = "created"
    /\ offset = 0 /\ total_fetched = 0 /\ response = NoPage /\ idx = 0
    /\ yielded = <<>> /\ requests = <<>> /\ received = <<>>

\* first next(): "offset = 0; total_fetched = 0", entering the while loop
Start ==
    /\ pc = "created"
    /\ offset' = 0
    /\ total_fetched' = 0
    /\ pc' = "request"
    /\ UNCHANGED <<page_size, max_records, src_total, src_full, response, idx,
                   yielded, requests, received>>
    /\ UNCHANGED notFetch

\* "response = self.get_data(...); data = ...; if not data: break"
\* (the guard on the number of requests keeps the state space finite; a
\* fetch against a source of at most MaxTotal records never meets it)
Request ==
    /\ pc = "request"
    /\ Len(requests) <= MaxTotal + 1
    /\ LET params == BuildParams(PageArgs(page_size, offset), ApiKey, page_size)
       IN  /\ requests' = Append(requests, ParamInt(params, K_offset, 0))
           /\ \E resp \in RemoteResponses(params) :
                /\ response' = resp
                /\ received' = Append(received, Len(resp.data))
                /\ IF resp.data = <<>>
                   THEN pc' = "done" /\ idx' = 0
                   ELSE pc' = "yield" /\ idx' = 1
    /\ UNCHANGED <<page_size, max_records, src_total, src_full, offset,
                   total_fetched, yielded>>
    /\ UNCHANGED notFetch

\* "yield record": the record is handed over and the generator is suspended
Yield ==
    /\ pc = "yield"
    /\ yielded' = Append(yielded, response.data[idx])
    /\ pc' = "suspended"
    /\ UNCHANGED <<page_size, max_records, src_total, src_full, offset,
                   total_fetched, response, idx, requests, received>>
    /\ UNCHANGED notFetch

\* next() on the suspended generator: "total_fetched += 1", the cap check,
\* then the next record of the page, or the short-page test and
\* "offset += len(data)"
Resume ==
    /\ pc = "suspended"
    /\ total_fetched' = total_fetched + 1
    /\ IF CapReached(max_records, total_fetched + 1)
       THEN pc' = "done" /\ UNCHANGED <<idx, offset>>
       ELSE IF idx < Len(response.data)
       THEN pc' = "yield" /\ idx' = idx + 1 /\ UNCHANGED offset
       ELSE IF ShortPage(response.data, page_size)
       THEN pc' = "done" /\ UNCHANGED <<idx, offset>>
       ELSE pc' = "request" /\ offset' = NextOffset(offset, response.data)
                /\ UNCHANGED idx
    /\ UNCHANGED <<page_size, max_records, src_total, src_full, response,
                   yielded, requests, received>>
    /\ UNCHANGED notFetch

\* the consumer stops iterating and drops the suspended generator
Close ==
    /\ pc = "suspended"
    /\ pc' = "closed"
    /\ UNCHANGED <<page_size, max_records, src_total, src_full, offset,
                   total_fetched, response, idx, yielded, requests, received>>
    /\ UNCHANGED notFetch

NextFetch == Start \/ Request \/ Yield \/ Resume \/ Close

InitFetchSpec ==
    InitFetch /\ IdleRetry /\ IdleQuery /\ IdleMap /\ IdlePip /\ IdleGeo
    /\ IdleId /\ IdlePaginate /\ IdlePages /\ IdleTwo /\ IdleAgg /\ IdleCoords

SpecFetch == InitFetchSpec /\ [][NextFetch]_vars

\* the generator's own steps are taken whenever the consumer keeps asking
FairSpecFetch == SpecFetch /\ WF_vars(Start \/ Request \/ Yield \/ Resume)

(* ------------------------------------------------------------------ *)
(* Properties of get_all_data                                         *)
(* ------------------------------------------------------------------ *)
\* the records at source positions 0..n-1, in source order
Prefix(n) == [i \in 1..n |-> i]

HasCap == max_records # None /\ max_records[1] >= 1

\* C1: against a source of T records served in full pages, a finished
\* fetch has yielded exactly the first min(T, max_records) records (the
\* first T without a cap), for every cap >= 0.
C1_EmitsMinTotalCap ==
    (pc = "done" /\ src_full)
        => yielded = Prefix(IF max_records = None THEN src_total
                            ELSE Min(src_total, max_records[1]))

\* the same for caps >= 1 and for no cap
FetchEmitsPrefixPositiveCap ==
    (pc = "done" /\ src_full /\ max_records # Some(0))
        => yielded = Prefix(IF max_records = None THEN src_total
                            ELSE Min(src_total, max_records[1]))

\* C2 (states): with a cap, never more records than the cap are yielded;
\* once the cap check has run on the record that reaches the cap the
\* generator is finished; page_size 2, cap 5, 7 records: 5 records and
\* 3 page requests.
C2_CapStates ==
    /\ HasCap => Len(yielded) <= max_records[1]
    /\ (HasCap /\ total_fetched >= max_records[1]) => pc = "done"
    /\ (pc = "done" /\ src_full /\ page_size = 2 /\ src_total = 7
            /\ max_records = Some(5))
         => (yielded = Prefix(5) /\ requests = <<0, 2, 4>>)

\* C2 (steps): from the moment the number of yielded records equals the
\* cap, no record is yielded, no page request is issued, and the next
\* step of the generator ends it.
C2_CapSteps ==
    (HasCap /\ Len(yielded) = max_records[1])
        => /\ yielded' = yielded
           /\ requests' = requests
           /\ pc' \in {"done", "closed"}

C3_OffsetIncreases ==
    requests' # requests
        => /\ Len(requests') = Len(requests) + 1
           /\ SubSeq(requests', 1, Len(requests)) = requests
           /\ Len(requests) >= 1
                => requests'[Len(requests')] > requests[Len(requests)]

\* C3: when every page request succeeds, a fetch that the consumer never
\* abandons ends: offsets strictly increase, at most total + 1 requests
\* are issued, and the generator reaches its end.
C3_FetchTerminates ==
    /\ [][C3_OffsetIncreases]_vars
    /\ [](Len(requests) <= src_total + 1)
    /\ ([](pc # "closed") => <>(pc = "done"))

C3_Witness == pc = "done" /\ Len(requests) >= 3 /\ max_records = None

\* C4: a fetch that did not end on its cap has covered the whole source:
\* it does not end on a short non-empty page while offset + returned
\* count is below the total available, and every record was emitted.
C4_TotalIsAuthoritative ==
    (pc = "done" /\ ~CapReached(max_records, total_fetched))
        => /\ offset + Len(response.data) >= response.total
           /\ yielded = Prefix(src_total)

(* ------------------------------------------------------------------ *)
(* EIAClient._handle_response and EIAClient._request                  *)
(* ------------------------------------------------------------------ *)
\* status codes the transport may deliver
Statuses == {200, 204, 400, 401, 403, 404, 429, 500, 503}

\* an attempt ends with a response of some status, or the transport
\* raises requests.RequestException (timeout, connection reset)
Outcomes ==
    {[kind |-> "status", code |-> c] : c \in Statuses}
        \cup {[kind |-> "RequestException", code |-> 0]}

\* _handle_response: the exception raised for a status, "ok" when the
\* parsed body is returned
HandleResponseLenient(status) ==
    CASE status = 401 -> "EIAAuthenticationError"
      [] status = 429 -> "EIARateLimitError"
      [] status = 404 -> "EIADataNotFoundError"
      [] status >= 500 -> "EIARequestError"
      [] OTHER -> "ok"
HandleResponse(status) ==
    CASE status = 401 -> "EIAAuthenticationError"
      [] status = 429 -> "EIARateLimitError"
      [] status = 404 -> "EIADataNotFoundError"
      [] status >= 400 -> "EIARequestError"
      [] OTHER -> "ok"

\* "attempt < self._config.max_retries - 1"
MayRetryAlways(i, retries) == i < retries
MayRetry(i, retries) == i < retries - 1

\* "wait_time = 2 ** attempt"
RateLimitDelayLinear(i) == 2 * i
RateLimitDelay(i) == Pow2(i)

\* "time.sleep(1)"
TransportDelayDouble(i) == 2
TransportDelay(i) == 1

InitRetry ==
    /\ max_retries \in 0..MaxRetries
    /\ attempt = 0
    /\ outcomes = <<>>
    /\ sleeps = <<>>
    /\ r_pc = "loop"
    /\ r_result = "none"

\* one iteration of "for attempt in range(max_retries)": the request, the
\* classification of its outcome, and the except clauses with their sleep
Attempt ==
    /\ r_pc = "loop"
    /\ attempt < max_retries
    /\ \E o \in Outcomes :
        LET handled == IF o.kind = "status" THEN HandleResponse(o.code)
                       ELSE "RequestException"
        IN  /\ outcomes' = Append(outcomes, o)
            /\ CASE handled = "ok" ->
                      /\ r_pc' = "returned" /\ r_result' = "response"
                      /\ UNCHANGED <<attempt, sleeps>>
                 [] handled = "EIARateLimitError" ->
                      IF MayRetry(attempt, max_retries)
                      THEN /\ sleeps' = Append(sleeps, <<attempt, RateLimitDelay(attempt)>>)
                           /\ attempt' = attempt + 1
                           /\ UNCHANGED <<r_pc, r_result>>
                      ELSE /\ r_pc' = "raised" /\ r_result' = "EIARateLimitError"
                           /\ UNCHANGED <<attempt, sleeps>>
                 [] handled = "RequestException" ->
                      IF MayRetry(attempt, max_retries)
                      THEN /\ sleeps' = Append(sleeps, <<attempt, TransportDelay(attempt)>>)
                           /\ attempt' = attempt + 1
                           /\ UNCHANGED <<r_pc, r_result>>
                      ELSE /\ r_pc' = "raised" /\ r_result' = "EIARequestError"
                           /\ UNCHANGED <<attempt, sleeps>>
                 [] OTHER ->
                      /\ r_pc' = "raised" /\ r_result' = handled
                      /\ UNCHANGED <<attempt, sleeps>>
    /\ UNCHANGED max_retries
    /\ UNCHANGED notRetry

\* range(max_retries) is exhausted without a return or a raise: the
\* function body ends and Python returns None
FallThrough ==
    /\ r_pc = "loop"
    /\ attempt >= max_retries
    /\ r_pc' = "returned"
    /\ r_result' = "None"
    /\ UNCHANGED <<max_retries, attempt, outcomes, sleeps>>
    /\ UNCHANGED notRetry

NextRetry == Attempt \/ FallThrough

InitRetrySpec ==
    InitRetry /\ IdleFetch /\ IdleQuery /\ IdleMap /\ IdlePip /\ IdleGeo
    /\ IdleId /\ IdlePaginate /\ IdlePages /\ IdleTwo /\ IdleAgg /\ IdleCoords

SpecRetry == InitRetrySpec /\ [][NextRetry]_vars

(* ------------------------------------------------------------------ *)
(* Properties of _request                                             *)
(* ------------------------------------------------------------------ *)
Is429(o) == o.kind = "status" /\ o.code = 429
IsTransportFailure(o) == o.kind = "RequestException"
IsFatalStatus(o) == o.kind = "status" /\ o.code >= 400 /\ o.code # 429
IsSuccess(o) == o.kind = "status" /\ o.code < 400

\* the delays slept after the attempt with index i
DelaysAfter(i) == SelectSeq(sleeps, LAMBDA sl : sl[1] = i)

RECURSIVE SumDelays(_)
SumDelays(sl) == IF sl = <<>> THEN 0 ELSE Head(sl)[2] + SumDelays(Tail(sl))

ErrorOfStatus(code) ==
    IF code = 401 THEN "EIAAuthenticationError"
    ELSE IF code = 404 THEN "EIADataNotFoundError"
    ELSE "EIARequestError"

\* C5: an attempt answered 401, 404 or another status >= 400 other than
\* 429 is the last attempt of the call, the call has raised the error the
\* status is classified as, and no delay was slept after that attempt
\* (the only delays are those of the attempts before it).
C5_FatalStatusEndsCall ==
    \A i \in 1..Len(outcomes) :
        IsFatalStatus(outcomes[i])
            => /\ i = Len(outcomes)
               /\ r_pc = "raised"
               /\ r_result = ErrorOfStatus(outcomes[i].code)
               /\ DelaysAfter(i - 1) = <<>>
               /\ Len(sleeps) = i - 1
               /\ attempt = i - 1

C5_Witness ==
    /\ max_retries = 4 /\ Len(outcomes) = 3
    /\ outcomes[3] = [kind |-> "status", code |-> 403]
    /\ r_pc = "raised" /\ r_result = "EIARequestError"

\* C6: a 429 on attempt index i < max_retries - 1 is followed by exactly
\* one delay, of 2^i, and the loop goes on to attempt i + 1; a 429 on the
\* last attempt raises EIARateLimitError with no delay. With only 429
\* responses a finished call made max_retries attempts and slept
\* max_retries - 1 times; 429, 429, success with max_retries = 3 returns
\* the response after a total delay of 3.
C6_RateLimitBackoff ==
    /\ \A i \in 1..Len(outcomes) :
         Is429(outcomes[i])
            => IF i - 1 < max_retries - 1
               THEN /\ DelaysAfter(i - 1) = << <<i - 1, Pow2(i - 1)>> >>
                    /\ attempt >= i
                    /\ (i = Len(outcomes) => r_pc = "loop" /\ attempt < max_retries)
               ELSE /\ i = Len(outcomes)
                    /\ r_pc = "raised" /\ r_result = "EIARateLimitError"
                    /\ DelaysAfter(i - 1) = <<>>
    /\ (r_pc # "loop" /\ outcomes # <<>>
            /\ \A i \in 1..Len(outcomes) : Is429(outcomes[i]))
         => (Len(outcomes) = max_retries /\ Len(sleeps) = max_retries - 1)
    /\ (max_retries = 3 /\ Len(outcomes) = 3 /\ Is429(outcomes[1])
            /\ Is429(outcomes[2]) /\ IsSuccess(outcomes[3]))
         => (r_pc = "returned" /\ r_result = "response" /\ SumDelays(sleeps) = 3)

C6_Witness ==
    /\ max_retries = 3 /\ r_pc = "returned" /\ r_result = "response"
    /\ Len(outcomes) = 3 /\ Is429(outcomes[1]) /\ Is429(outcomes[2])
    /\ sleeps = << <<0, 1>>, <<1, 2>> >>

\* C7: a transport failure on a non-final attempt is followed by exactly
\* one delay, of 1, and the loop goes on to the next attempt; on the final
\* attempt it raises EIARequestError with no delay. With only transport
\* failures a finished call made max_retries attempts, slept
\* max_retries - 1 times and raised.
C7_TransportFailureRetry ==
    /\ \A i \in 1..Len(outcomes) :
         IsTransportFailure(outcomes[i])
            => IF i - 1 < max_retries - 1
               THEN /\ DelaysAfter(i - 1) = << <<i - 1, 1>> >>
                    /\ attempt >= i
                    /\ (i = Len(outcomes) => r_pc = "loop" /\ attempt < max_retries)
               ELSE /\ i = Len(outcomes)
                    /\ r_pc = "raised" /\ r_result = "EIARequestError"
                    /\ DelaysAfter(i - 1) = <<>>
    /\ (r_pc # "loop" /\ outcomes # <<>>
            /\ \A i \in 1..Len(outcomes) : IsTransportFailure(outcomes[i]))
         => /\ Len(outcomes) = max_retries
            /\ Len(sleeps) = max_retries - 1
            /\ r_pc = "raised" /\ r_result = "EIARequestError"

C7_Witness ==
    /\ max_retries = 3 /\ Len(outcomes) = 3
    /\ \A i \in 1..3 : IsTransportFailure(outcomes[i])
    /\ r_pc = "raised" /\ r_result = "EIARequestError"
    /\ sleeps = << <<0, 1>>, <<1, 1>> >>

RequestErrors ==
    {"EIAAuthenticationError", "EIARateLimitError", "EIADataNotFoundError",
     "EIARequestError"}

\* a call has ended properly: it returned the response of a successful
\* last attempt, or raised one of the four errors
EndedProperly ==
    \/ /\ r_pc = "returned" /\ r_result = "response"
       /\ outcomes # <<>> /\ IsSuccess(outcomes[Len(outcomes)])
    \/ r_pc = "raised" /\ r_result \in RequestErrors

\* C8: for every max_retries and every sequence of outcomes, a call that
\* has ended either returned the parsed response of a successful attempt
\* or raised one of the four errors.
C8_ReturnsResponseOrRaises == r_pc # "loop" => EndedProperly

\* the same for max_retries >= 1
RequestEndsProperlyWithAttempts ==
    (r_pc # "loop" /\ max_retries >= 1) => EndedProperly

(* ------------------------------------------------------------------ *)
(* EIAClient.get_data: one call with arguments from bounded sets      *)
(* ------------------------------------------------------------------ *)
ColumnNames == { <<"v","a","l","u","e">>, <<"c","o","s","t">> }
FacetNames == { <<"f","u","e","l","t","y","p","e">>, <<"s","t","a","t","e","i","d">> }
FacetValues == { <<"S","U","N">>, <<"W","N","D">> }
SortColumns == { <<"p","e","r","i","o","d">>, <<"v","a","l","u","e">> }
SortEntries ==
    [column : SortColumns, direction : {None, Some(D_asc), Some(D_desc)}]
Frequencies == { <<>>, <<"h","o","u","r","l","y">> }
Starts == { <<>>, <<"2","0","2","4","-","0","1">> }
Ends == { <<>>, <<"2","0","2","4","-","1","2">> }
Lengths == {0, 100, DefaultPageSize, DefaultPageSize + 1000}
Offsets == {0, DefaultPageSize}

FacetEntries(b) ==
    [name : FacetNames, values : SeqsUpTo(FacetValues, Min(b, Cardinality(FacetValues)))]

RECURSIVE FacetItems(_)
FacetItems(facets) ==
    IF facets = <<>> THEN 0
    ELSE Max(1, Len(Head(facets).values)) + FacetItems(Tail(facets))

\* dicts in insertion order: the names of a dict are distinct
FacetDicts(b) ==
    {f \in SeqsUpTo(FacetEntries(b), Min(b, Cardinality(FacetNames))) :
        /\ \A i, j \in 1..Len(f) : i # j => f[i].name # f[j].name
        /\ FacetItems(f) <= b}

Present(x, absent) == IF x = absent THEN 0 ELSE 1

InitQuery ==
    /\ q_pc = "call"
    /\ q_params = <<>>
    /\ q_page_size = DefaultPageSize
    /\ \E cols \in SeqsUpTo(ColumnNames, MaxItems) :
       \E fac \in FacetDicts(MaxItems - Len(cols)) :
       \E so \in SeqsUpTo(SortEntries, MaxItems - Len(cols) - FacetItems(fac)) :
       \E fr \in Frequencies, st \in Starts, en \in Ends,
          len \in Lengths, off \in Offsets :
            /\ Len(cols) + FacetItems(fac) + Len(so) + Present(fr, <<>>)
                  + Present(st, <<>>) + Present(en, <<>>) + Present(len, 0)
                  + Present(off, 0) <= MaxItems
            /\ q_args = [data_columns |-> cols, facets |-> fac, frequency |-> fr,
                         start |-> st, end |-> en, sort |-> so, length |-> len,
                         offset |-> off]

\* get_data builds the pair list and hands it to _request
GetData ==
    /\ q_pc = "call"
    /\ q_params' = BuildParams(q_args, ApiKey, q_page_size)
    /\ q_pc' = "sent"
    /\ UNCHANGED <<q_args, q_page_size>>
    /\ UNCHANGED notQuery

NextQuery == GetData

InitQuerySpec ==
    InitQuery /\ IdleFetch /\ IdleRetry /\ IdleMap /\ IdlePip /\ IdleGeo
    /\ IdleId /\ IdlePaginate /\ IdlePages /\ IdleTwo /\ IdleAgg /\ IdleCoords

SpecQuery == InitQuerySpec /\ [][NextQuery]_vars

\* get_data on clients of any configured page size (EIA_PAGE_SIZE), with
\* every length and offset and no filter
PageSizes ==
    {1, 100, DefaultPageSize - 1, DefaultPageSize, DefaultPageSize + 1,
     DefaultPageSize + 1000}
LengthArgs ==
    {-1, 0, 1, 100, DefaultPageSize - 1, DefaultPageSize, DefaultPageSize + 1,
     DefaultPageSize + 1000, 2 * DefaultPageSize}

InitQueryConfig ==
    /\ q_pc = "call"
    /\ q_params = <<>>
    /\ q_page_size \in PageSizes
    /\ \E len \in LengthArgs, off \in Offsets :
         q_args = [NoArgs EXCEPT !.length = len, !.offset = off]

InitQueryConfigSpec ==
    InitQueryConfig /\ IdleFetch /\ IdleRetry /\ IdleMap /\ IdlePip /\ IdleGeo
    /\ IdleId /\ IdlePaginate /\ IdlePages /\ IdleTwo /\ IdleAgg /\ IdleCoords

SpecQueryConfig == InitQueryConfigSpec /\ [][NextQuery]_vars

(* ------------------------------------------------------------------ *)
(* Properties of get_data                                             *)
(* ------------------------------------------------------------------ *)
SortKinds == {"sort_column", "sort_direction"}
ScalarKinds == {"frequency", "start", "end", "length", "offset"}

\* the kind of every pair of the list sent, by position
Kinds == [i \in 1..Len(q_params) |-> KindOf(q_params[i].key)]

\* in k, every pair of the first group comes before every pair of the second
GroupBefore(k, first, second) ==
    \A i, j \in DOMAIN k : (k[i] \in first /\ k[j] \in second) => i < j

HasKind(kinds) == \E i \in 1..Len(q_params) : KindOf(q_params[i].key) \in kinds

GivenFacetValues(facets, name) ==
    LET hits == SelectSeq(facets, LAMBDA f : f.name = name)
    IN  IF hits = <<>> THEN <<>> ELSE hits[1].values

\* a filter spec as the data model has it: every facet's values are a
\* set (no value twice) and every sort entry has a direction
WellFormed(a) ==
    /\ \A k \in 1..Len(a.facets) :
         \A i, j \in 1..Len(a.facets[k].values) :
            i # j => a.facets[k].values[i] # a.facets[k].values[j]
    /\ \A i \in 1..Len(a.sort) : a.sort[i].direction # None

\* C10: for a well-formed filter spec the pair list parses back to what
\* was given: the columns in order, one pair per column; for every facet
\* name exactly its values, one pair per value; the sort entries by index
\* in list order, each with its column and its direction.
C10_RoundTrip ==
    (q_pc = "sent" /\ WellFormed(q_args))
        => /\ ParsedColumns(q_params) = q_args.data_columns
           /\ \A name \in FacetNames \cup ParsedFacetNames(q_params) :
                LET given == GivenFacetValues(q_args.facets, name)
                    parsed == ParsedFacetValues(q_params, name)
                IN  /\ Range(parsed) = Range(given)
                    /\ Len(parsed) = Cardinality(Range(given))
           /\ ParsedSortIndices(q_params) = {i - 1 : i \in 1..Len(q_args.sort)}
           /\ \A i \in 1..Len(q_args.sort) :
                /\ SortValuesAt(q_params, "sort_column", i - 1)
                      = <<q_args.sort[i].column>>
                /\ SortValuesAt(q_params, "sort_direction", i - 1)
                      = <<q_args.sort[i].direction[1]>>

C10_Witness ==
    /\ q_pc = "sent" /\ WellFormed(q_args)
    /\ Len(q_args.sort) = 2 /\ q_args.sort[1] # q_args.sort[2]
    /\ \E k \in 1..Len(q_args.facets) : Len(q_args.facets[k].values) = 2

\* the length pairs of the list sent
LengthValues == ValuesOf(PairsOfKind(q_params, "length"))

\* C11: whatever length is passed, the call is made (no error), and the
\* length pair, when one is emitted, carries min(length, 5000): never more
\* than the remote page-size ceiling of 5000.
C11_LengthNeverAboveCeiling ==
    /\ q_pc = "call" => ENABLED GetData
    /\ q_pc = "sent" =>
         \A i \in 1..Len(LengthValues) :
            /\ LengthValues[i] <= DefaultPageSize
            /\ LengthValues[i] = Min(q_args.length, DefaultPageSize)

\* the same on a client whose page size is the default of 5000
LengthClampedByDefaultConfig ==
    (q_pc = "sent" /\ q_page_size = DefaultPageSize)
        => \A i \in 1..Len(LengthValues) :
              /\ LengthValues[i] <= DefaultPageSize
              /\ LengthValues[i] = Min(q_args.length, DefaultPageSize)

(* ------------------------------------------------------------------ *)
(* GeneratorCapacity.from_dict and FuelTypeData.from_dict             *)
(* ------------------------------------------------------------------ *)
\* the outcome of evaluating one expression: a value, or an exception
Ok(v) == [err |-> "", val |-> Some(v)]
Raise(e) == [err |-> e, val |-> None]

\* bool(x): None, 0, 0.0 and "" are falsy
Truthy(x) ==
    CASE x.t = "num" -> x.v # 0
      [] x.t = "str" -> x.s # <<>>
      [] OTHER -> FALSE

\* data.get(key, default) and data.get(key): an absent key gives the default
GetOr(x, default) == IF x.t = "absent" THEN default ELSE x
Get(x) == GetOr(x, Null)

\* x or 0
OrZero(x) == IF Truthy(x) THEN x ELSE Num(0)

Unsigned(s) == IF s # <<>> /\ s[1] \in {"+", "-"} THEN Tail(s) ELSE s
Negative(s) == s # <<>> /\ s[1] = "-"
Dots(u) == {i \in 1..Len(u) : u[i] = "."}
IntPart(u) == SubSeq(u, 1, (CHOOSE i \in Dots(u) : TRUE) - 1)
FracPart(u) == SubSeq(u, (CHOOSE i \in Dots(u) : TRUE) + 1, Len(u))

\* the decimal literals float(str) accepts: sign, digits, one optional point
IsFloatLiteral(s) ==
    LET u == Unsigned(s) IN
    IF Dots(u) = {} THEN IsDigits(u)
    ELSE /\ Cardinality(Dots(u)) = 1
         /\ IntPart(u) = <<>> \/ IsDigits(IntPart(u))
         /\ FracPart(u) = <<>> \/ IsDigits(FracPart(u))
         /\ IntPart(u) \o FracPart(u) # <<>>

\* the number float(str) returns, in tenths (literals of one decimal place)
ParseFloat(s) ==
    LET u == Unsigned(s)
        ip == IF Dots(u) = {} THEN u ELSE IntPart(u)
        fp == IF Dots(u) = {} THEN <<>> ELSE FracPart(u)
        magnitude == (IF ip = <<>> THEN 0 ELSE 10 * ParseDec(ip))
                     + (IF fp = <<>> THEN 0 ELSE DigitValue(fp[1]))
    IN IF Negative(s) THEN 0 - magnitude ELSE magnitude

\* float(x)
FloatOf(x) ==
    CASE x.t = "num" -> Ok(x.v)
      [] x.t = "str" -> IF IsFloatLiteral(x.s) THEN Ok(ParseFloat(x.s))
                        ELSE Raise("ValueError")
      [] OTHER -> Raise("TypeError")

\* int(str)
IntOf(s) ==
    IF IsDigits(Unsigned(s))
    THEN Ok(IF Negative(s) THEN 0 - ParseDec(Unsigned(s)) ELSE ParseDec(Unsigned(s)))
    ELSE Raise("ValueError")

\* an optional result: None stays None, a value v becomes Some(v)
Optional(r) == IF r.err = "" THEN Ok(r.val) ELSE r

\* float(data.get(key, 0) or 0)
NumericField(x) == FloatOf(OrZero(GetOr(x, Num(0))))

\* float(data[key]) if data.get(key) else None
OptionalFloat(x) == IF Truthy(Get(x)) THEN Optional(FloatOf(x)) ELSE Ok(None)

\* int(data[key][:4]) if data.get(key) else None
OperatingYear(x) ==
    IF ~Truthy(Get(x)) THEN Ok(None)
    ELSE IF x.t = "str" THEN Optional(IntOf(SubSeq(x.s, 1, Min(4, Len(x.s)))))
    ELSE Raise("TypeError")

\* the keyword arguments of cls(...), in the order they are evaluated
GeneratorFields(data) ==
    <<NumericField(data.capacity), NumericField(data.summer),
      NumericField(data.winter), OperatingYear(data.oym),
      OptionalFloat(data.latitude), OptionalFloat(data.longitude)>>

FuelFields(data) == <<NumericField(data.value)>>

Failed(fields) == {i \in 1..Len(fields) : fields[i].err # ""}
FirstError(fields) ==
    fields[CHOOSE i \in Failed(fields) : \A j \in Failed(fields) : i <= j].err

GeneratorEntity(f) ==
    [nameplate_capacity_mw |-> f[1].val[1],
     net_summer_capacity_mw |-> f[2].val[1],
     net_winter_capacity_mw |-> f[3].val[1],
     operating_year |-> f[4].val[1],
     latitude |-> f[5].val[1],
     longitude |-> f[6].val[1]]

FuelEntity(f) == [value |-> f[1].val[1]]

\* raw values of the numeric and coordinate fields: absent, null, numbers
\* (0 and 2.5, 35.0) and strings ("", "0", "2.5", "-1", "abc")
RawNumbers ==
    {Absent, Null, Num(0), Num(25), Str(<<>>), Str(<<"0">>),
     Str(<<"2", ".", "5">>), Str(<<"-", "1">>), Str(<<"a", "b", "c">>)}
RawSeasonal == {Absent, Num(25), Str(<<"a", "b", "c">>)}
RawCoordinates ==
    {Absent, Null, Num(0), Num(350), Str(<<>>), Str(<<"0">>),
     Str(<<"3", "5", ".", "5">>), Str(<<"a", "b", "c">>)}
\* raw operating-year-month: "2020-05", "N/A", "", the number 202005
RawYearMonths ==
    {Absent, Null, Str(<<>>), Str(<<"2", "0", "2", "0", "-", "0", "5">>),
     Str(<<"N", "/", "A">>), Num(2020050)}

InitMap ==
    /\ m_pc = "call"
    /\ m_entity = None
    /\ m_error = ""
    /\ \/ /\ m_kind = "generator"
          /\ \E c \in RawNumbers, su, wi \in RawSeasonal, ym \in RawYearMonths,
                la, lo \in RawCoordinates :
                m_raw = [NoRaw EXCEPT !.capacity = c, !.summer = su,
                                      !.winter = wi, !.oym = ym,
                                      !.latitude = la, !.longitude = lo]
       \/ /\ m_kind = "fuel"
          /\ \E v \in RawNumbers : m_raw = [NoRaw EXCEPT !.value = v]

\* the call returns the entity, or the first exception raised propagates
FromDict(fields, entity) ==
    /\ m_pc = "call"
    /\ IF Failed(fields) = {}
       THEN m_pc' = "mapped" /\ m_entity' = Some(entity) /\ m_error' = ""
       ELSE m_pc' = "raised" /\ m_entity' = None
            /\ m_error' = FirstError(fields)
    /\ UNCHANGED <<m_kind, m_raw>>
    /\ UNCHANGED notMap

GeneratorFromDict ==
    /\ m_kind = "generator"
    /\ FromDict(GeneratorFields(m_raw), GeneratorEntity(GeneratorFields(m_raw)))

FuelFromDict ==
    /\ m_kind = "fuel"
    /\ FromDict(FuelFields(m_raw), FuelEntity(FuelFields(m_raw)))

NextMap == GeneratorFromDict \/ FuelFromDict

InitMapSpec ==
    InitMap /\ IdleFetch /\ IdleRetry /\ IdleQuery /\ IdlePip /\ IdleGeo
    /\ IdleId /\ IdlePaginate /\ IdlePages /\ IdleTwo /\ IdleAgg /\ IdleCoords

SpecMap == InitMapSpec /\ [][NextMap]_vars

(* ------------------------------------------------------------------ *)
(* Claims about the record mappers                                    *)
(* ------------------------------------------------------------------ *)
Returned == m_pc \in {"mapped", "raised"}

\* C12: record mapping never fails: for every raw mapping (absent keys,
\* null values, non-numeric strings in any field) both from_dict methods
\* return an entity and raise no error.
C12_MappingNeverFails ==
    Returned => (m_pc = "mapped" /\ m_entity # None /\ m_error = "")

\* a field that from_dict can convert: absent, null, a number, "" or a
\* decimal literal (for operating-year-month: a string of 4 leading digits)
Convertible(x) == x.t # "str" \/ x.s = <<>> \/ IsFloatLiteral(x.s)
YearConvertible(x) ==
    ~Truthy(Get(x)) \/ (x.t = "str" /\ IsDigits(Unsigned(SubSeq(x.s, 1, Min(4, Len(x.s))))))

\* from_dict returns an entity exactly when every field is convertible
MappingFailsOnlyOnUnconvertible ==
    Returned =>
        (m_pc = "mapped" <=>
            /\ \A k \in {"capacity", "summer", "winter", "latitude",
                         "longitude", "value"} : Convertible(m_raw[k])
            /\ YearConvertible(m_raw.oym))

NumericRaw == IF m_kind = "generator" THEN m_raw.capacity ELSE m_raw.value
NumericMapped ==
    IF m_kind = "generator" THEN m_entity[1].nameplate_capacity_mw
    ELSE m_entity[1].value

Unparseable(x) == x.t = "str" /\ ~IsFloatLiteral(x.s)
ParsedNumber(x) == IF x.t = "num" THEN x.v ELSE ParseFloat(x.s)
ExpectedNumber(x) ==
    IF x.t \in {"absent", "null"} \/ Unparseable(x) THEN 0 ELSE ParsedNumber(x)

\* C13: a numeric field (nameplate capacity, value) maps to 0.0 when the
\* key is absent, the value is null or the value cannot be parsed as a
\* number, and to the parsed number in every other case.
C13_NumericFieldDefaults ==
    Returned =>
        /\ Unparseable(NumericRaw) => m_pc = "mapped"
        /\ m_pc = "mapped" => NumericMapped = ExpectedNumber(NumericRaw)

\* whenever an entity is returned its numeric field is the expected number
NumericFieldOfReturnedEntity ==
    m_pc = "mapped" => NumericMapped = ExpectedNumber(NumericRaw)

\* "g.latitude and g.longitude": the location test of the filters
TruthyCoordinate(c) == c # None /\ c[1] # 0
HasLocation(g) == TruthyCoordinate(g.latitude) /\ TruthyCoordinate(g.longitude)

HasNoValue(x) == x.t \in {"absent", "null"}
IsRawZero(x) == x = Num(0) \/ x = Str(<<"0">>)
Coordinates == {"latitude", "longitude"}

\* C14: the mapped latitude and longitude are None exactly when the raw
\* record has no value for them (an empty string counted as no value), a
\* raw coordinate of 0 maps to a present coordinate equal to 0, and the
\* location test of the filters accepts every generator whose two
\* coordinates are present.
C14_ZeroCoordinateIsPresent ==
    (m_pc = "mapped" /\ m_kind = "generator") =>
        /\ \A k \in Coordinates :
              /\ HasNoValue(m_raw[k]) => m_entity[1][k] = None
              /\ m_entity[1][k] = None =>
                    (HasNoValue(m_raw[k]) \/ m_raw[k] = Str(<<>>))
              /\ IsRawZero(m_raw[k]) => m_entity[1][k] = Some(0)
        /\ (\A k \in Coordinates : m_entity[1][k] # None)
              => HasLocation(m_entity[1])

\* away from zero the claim holds: a non-zero raw coordinate is present
\* with its value and passes the location test; no value maps to None
NonZeroCoordinateIsPresent ==
    (m_pc = "mapped" /\ m_kind = "generator") =>
        /\ \A k \in Coordinates :
              /\ ~Truthy(Get(m_raw[k])) => m_entity[1][k] = None
              /\ Truthy(Get(m_raw[k])) /\ ParsedNumber(m_raw[k]) # 0
                    => m_entity[1][k] = Some(ParsedNumber(m_raw[k]))
        /\ (\A k \in Coordinates :
                Truthy(Get(m_raw[k])) /\ ParsedNumber(m_raw[k]) # 0)
              => HasLocation(m_entity[1])

(* ------------------------------------------------------------------ *)
(* point_in_polygon                                                   *)
(* ------------------------------------------------------------------ *)
\* a vertex is <<lat, lon>>: polygon[i][0] is v[1], polygon[i][1] is v[2]

\* (polygon[i][0] > lat) != (polygon[j][0] > lat)
StraddlesClosed(lat, vi, vj) == (vi[1] > lat) # (vj[1] >= lat)
Straddles(lat, vi, vj) == (vi[1] > lat) # (vj[1] > lat)

\* lon < (polygon[j][1] - polygon[i][1]) * (lat - polygon[i][0])
\*           / (polygon[j][0] - polygon[i][0]) + polygon[i][1]
\* over the rationals: both sides are multiplied by the divisor, which
\* turns the comparison when the divisor is negative
LeftOfCrossingUnsigned(lat, lon, vi, vj) ==
    (lon - vi[2]) * (vj[1] - vi[1]) < (vj[2] - vi[2]) * (lat - vi[1])
LeftOfCrossing(lat, lon, vi, vj) ==
    IF vj[1] - vi[1] > 0
    THEN (lon - vi[2]) * (vj[1] - vi[1]) < (vj[2] - vi[2]) * (lat - vi[1])
    ELSE (lon - vi[2]) * (vj[1] - vi[1]) > (vj[2] - vi[2]) * (lat - vi[1])

\* the loop "for i in range(n)" from index i on, with j the previous index
RECURSIVE PipLoop(_, _, _, _, _, _)
PipLoop(lat, lon, polygon, i, j, inside) ==
    IF i > Len(polygon) THEN inside
    ELSE PipLoop(lat, lon, polygon, i + 1, i,
                 IF Straddles(lat, polygon[i], polygon[j])
                    /\ LeftOfCrossing(lat, lon, polygon[i], polygon[j])
                 THEN ~inside ELSE inside)

\* inside = False; j = n - 1; the loop; return inside
PointInPolygonOpenRing(lat, lon, polygon) ==
    PipLoop(lat, lon, polygon, 2, 1, FALSE)
PointInPolygon(lat, lon, polygon) ==
    PipLoop(lat, lon, polygon, 1, Len(polygon), FALSE)

\* the division is evaluated only when the first operand of "and" is true
DividesAlways(lat, vi, vj) == TRUE
Divides(lat, vi, vj) == (vi[1] > lat) # (vj[1] > lat)

\* some iteration of the loop divides by polygon[j][0] - polygon[i][0] = 0:
\* ZeroDivisionError
PipRaises(lat, lon, polygon) ==
    \E i \in 1..Len(polygon) :
        LET j == IF i = 1 THEN Len(polygon) ELSE i - 1
        IN Divides(lat, polygon[i], polygon[j])
           /\ polygon[j][1] - polygon[i][1] = 0

VertexLats == {30, 35, 40}
VertexLons == {-100, -90}
Vertices == VertexLats \X VertexLons
PointLats == {29, 30, 33, 35}
PointLons == {-101, -100, -95, -85}

InitPip ==
    /\ pip_pc = "call"
    /\ pip_inside = FALSE
    /\ pip_polygon \in SeqsUpTo(Vertices, MaxVerts)
    /\ pip_lat \in PointLats
    /\ pip_lon \in PointLons

CallPointInPolygon ==
    /\ pip_pc = "call"
    /\ IF PipRaises(pip_lat, pip_lon, pip_polygon)
       THEN pip_pc' = "raised" /\ pip_inside' = FALSE
       ELSE /\ pip_pc' = "done"
            /\ pip_inside' = PointInPolygon(pip_lat, pip_lon, pip_polygon)
    /\ UNCHANGED <<pip_polygon, pip_lat, pip_lon>>
    /\ UNCHANGED notPip

NextPip == CallPointInPolygon

InitPipSpec ==
    InitPip /\ IdleFetch /\ IdleRetry /\ IdleQuery /\ IdleMap /\ IdleGeo
    /\ IdleId /\ IdlePaginate /\ IdlePages /\ IdleTwo /\ IdleAgg /\ IdleCoords

SpecPip == InitPipSpec /\ [][NextPip]_vars

(* ------------------------------------------------------------------ *)
(* Claims about point_in_polygon                                      *)
(* ------------------------------------------------------------------ *)
Succ(i, n) == (i % n) + 1
Rotate(polygon, k) ==
    [i \in 1..Len(polygon) |-> polygon[((i + k - 1) % Len(polygon)) + 1]]
Reverse(polygon) ==
    [i \in 1..Len(polygon) |-> polygon[Len(polygon) + 1 - i]]

\* twice the signed area of the triangle a, b, p
Cross(a, b, p) == (b[1] - a[1]) * (p[2] - a[2]) - (b[2] - a[2]) * (p[1] - a[1])

OnSegment(p, a, b) ==
    /\ Cross(a, b, p) = 0
    /\ Min(a[1], b[1]) <= p[1] /\ p[1] <= Max(a[1], b[1])
    /\ Min(a[2], b[2]) <= p[2] /\ p[2] <= Max(a[2], b[2])

\* the point lies on an edge or a vertex of the polygon
OnBoundary(p, polygon) ==
    \E i \in 1..Len(polygon) :
        OnSegment(p, polygon[i], polygon[Succ(i, Len(polygon))])

PipPoint == <<pip_lat, pip_lon>>
PipDone == pip_pc = "done"

\* C16: for a polygon of at least 3 vertices and a test point on no edge
\* and no vertex, point_in_polygon returns the same result for the vertex
\* list, for each of its rotations and for the reversed list.
C16_RotationReversalInvariant ==
    (PipDone /\ Len(pip_polygon) >= 3 /\ ~OnBoundary(PipPoint, pip_polygon)) =>
        /\ \A k \in 0..(Len(pip_polygon) - 1) :
              PointInPolygon(pip_lat, pip_lon, Rotate(pip_polygon, k)) = pip_inside
        /\ PointInPolygon(pip_lat, pip_lon, Reverse(pip_polygon)) = pip_inside

\* an inside point level with a vertex, in a polygon that differs from its
\* rotation and from its reversal
C16_Witness ==
    /\ PipDone /\ Len(pip_polygon) >= 3
    /\ ~OnBoundary(PipPoint, pip_polygon)
    /\ pip_inside
    /\ \E i \in 1..Len(pip_polygon) : pip_polygon[i][1] = pip_lat
    /\ Rotate(pip_polygon, 1) # pip_polygon
    /\ Reverse(pip_polygon) # pip_polygon

Distinct(polygon) ==
    \A i, k \in 1..Len(polygon) : polygon[i] = polygon[k] => i = k

\* four distinct corners, every edge parallel to an axis, consecutive
\* edges perpendicular
IsRectangle(polygon) ==
    /\ Len(polygon) = 4
    /\ Distinct(polygon)
    /\ \A i \in 1..4 :
          LET a == polygon[i]
              b == polygon[Succ(i, 4)]
              c == polygon[Succ(Succ(i, 4), 4)]
          IN \/ a[1] = b[1] /\ b[2] = c[2]
             \/ a[2] = b[2] /\ b[1] = c[1]

Coordinate(polygon, c) == {polygon[i][c] : i \in 1..Len(polygon)}
MinOf(S) == CHOOSE x \in S : \A y \in S : x <= y
MaxOf(S) == CHOOSE x \in S : \A y \in S : x >= y

StrictlyInsideBox(p, polygon) ==
    /\ MinOf(Coordinate(polygon, 1)) < p[1] /\ p[1] < MaxOf(Coordinate(polygon, 1))
    /\ MinOf(Coordinate(polygon, 2)) < p[2] /\ p[2] < MaxOf(Coordinate(polygon, 2))

ExampleRectangle == <<<<30, -100>>, <<40, -100>>, <<40, -90>>, <<30, -90>>>>

\* C17: even-odd rule on axis-aligned rectangles: for a rectangle given by
\* its four corners and a point not on its boundary, point_in_polygon is
\* true exactly when the point is strictly inside; for the rectangle
\* [[30,-100],[40,-100],[40,-90],[30,-90]], (35,-95) is inside and
\* (35,-85) is outside.
C17_RectangleEvenOdd ==
    /\ (PipDone /\ IsRectangle(pip_polygon) /\ ~OnBoundary(PipPoint, pip_polygon))
          => (pip_inside <=> StrictlyInsideBox(PipPoint, pip_polygon))
    /\ (PipDone /\ pip_polygon = ExampleRectangle /\ PipPoint = <<35, -95>>)
          => pip_inside
    /\ (PipDone /\ pip_polygon = ExampleRectangle /\ PipPoint = <<35, -85>>)
          => ~pip_inside

C17_Witness ==
    /\ PipDone /\ pip_polygon = ExampleRectangle
    /\ PipPoint = <<35, -95>> /\ pip_inside

\* convex: distinct vertices, not all on one line, and every vertex on the
\* same closed side of every edge
Convex(polygon) ==
    LET n == Len(polygon)
        Side(i, k) == Cross(polygon[i], polygon[Succ(i, n)], polygon[k])
    IN /\ n >= 3
       /\ Distinct(polygon)
       /\ \E i, k \in 1..n : Side(i, k) # 0
       /\ \/ \A i, k \in 1..n : Side(i, k) >= 0
          \/ \A i, k \in 1..n : Side(i, k) <= 0

RECURSIVE SumCoordinate(_, _)
SumCoordinate(polygon, c) ==
    IF polygon = <<>> THEN 0
    ELSE polygon[1][c] + SumCoordinate(Tail(polygon), c)

Scaled(polygon, n) ==
    [i \in 1..Len(polygon) |-> <<n * polygon[i][1], n * polygon[i][2]>>]

\* the centroid (the mean of the vertices) is inside: both the point and
\* the polygon are scaled by the number of vertices, which keeps every
\* comparison of point_in_polygon
CentroidInside(polygon) ==
    PointInPolygon(SumCoordinate(polygon, 1), SumCoordinate(polygon, 2),
                   Scaled(polygon, Len(polygon)))

CornerPoint(polygon) ==
    <<MinOf(Coordinate(polygon, 1)) - 1, MinOf(Coordinate(polygon, 2)) - 1>>

IsCentroid(p, polygon) ==
    /\ Len(polygon) * p[1] = SumCoordinate(polygon, 1)
    /\ Len(polygon) * p[2] = SumCoordinate(polygon, 2)

\* C18: for a convex polygon of at least 3 non-collinear vertices
\* point_in_polygon classifies the centroid as inside, and for every
\* polygon it classifies (minimum latitude - 1, minimum longitude - 1) as
\* outside.
C18_CentroidInsideCornerOutside ==
    (PipDone /\ pip_polygon # <<>>) =>
        /\ Convex(pip_polygon) => CentroidInside(pip_polygon)
        /\ (Convex(pip_polygon) /\ IsCentroid(PipPoint, pip_polygon)) => pip_inside
        /\ ~PointInPolygon(CornerPoint(pip_polygon)[1], CornerPoint(pip_polygon)[2],
                           pip_polygon)
        /\ PipPoint = CornerPoint(pip_polygon) => ~pip_inside

\* a convex polygon that is no rectangle, tested at its centroid
C18_Witness ==
    /\ PipDone /\ Convex(pip_polygon) /\ ~IsRectangle(pip_polygon)
    /\ IsCentroid(PipPoint, pip_polygon) /\ pip_inside

(* ------------------------------------------------------------------ *)
(* get_generators_in_bounds and get_polygon_analytics                 *)
(* ------------------------------------------------------------------ *)
SolarCode == "SUN"
WindCode == "WND"

\* the default of the energy_source parameter, "Query(None)": the handler
\* receives this object, not None, when it is called as a plain function
\* without the argument; it is truthy and equal to no source code
QueryDefault == "Query(None)"

DefaultLimit == 1000
AnalyticsLimit == 2000

\* [energy_source] if energy_source else ["SUN", "WND"]
SourceList(energy_source) ==
    IF energy_source # None /\ energy_source[1] # ""
    THEN <<energy_source[1]>>
    ELSE <<SolarCode, WindCode>>

\* get_solar_capacity(limit) if source == "SUN" else get_wind_capacity(limit)
\* one page of the records with that energy source code, of at most
\* min(limit, page size) records
CapacityPage(upstream, source, limit) ==
    LET code == IF source = SolarCode THEN SolarCode ELSE WindCode
        HasCode(g) == g.energy_source = code
        matching == SelectSeq(upstream, HasCode)
    IN SubSeq(matching, 1, Min(Len(matching), Min(limit, DefaultPageSize)))

\* min_lat <= g.latitude <= max_lat and min_lon <= g.longitude <= max_lon
InRange(g, a) ==
    /\ a.min_lat <= g.latitude[1] /\ g.latitude[1] <= a.max_lat
    /\ a.min_lon <= g.longitude[1] /\ g.longitude[1] <= a.max_lon

\* the condition under which a generator is appended
KeptInBounds(g, a) ==
    /\ HasLocation(g)
    /\ InRange(g, a)
    /\ g.nameplate_capacity_mw > 0

ToDict(g) ==
    [energy_source |-> g.energy_source, capacity_mw |-> g.nameplate_capacity_mw,
     lat |-> g.latitude[1], lon |-> g.longitude[1]]

ToDicts(seq) == [i \in 1..Len(seq) |-> ToDict(seq[i])]

\* the body of "for source in source_list": a source whose fetch raises
\* contributes nothing (the exception is printed)
FromSource(upstream, failing, source, a) ==
    LET Kept(g) == KeptInBounds(g, a)
    IN IF failing = Some(source) THEN <<>>
       ELSE ToDicts(SelectSeq(CapacityPage(upstream, source, a.limit), Kept))

RECURSIVE FromSources(_, _, _, _)
FromSources(upstream, failing, sources, a) ==
    IF sources = <<>> THEN <<>>
    ELSE FromSource(upstream, failing, Head(sources), a)
         \o FromSources(upstream, failing, Tail(sources), a)

GeneratorsInBounds(upstream, failing, a) ==
    FromSources(upstream, failing, SourceList(a.energy_source), a)

\* the arguments get_polygon_analytics calls get_generators_in_bounds with
BoundingBox(coords) ==
    [min_lat |-> MinOf(Coordinate(coords, 1)), max_lat |-> MaxOf(Coordinate(coords, 1)),
     min_lon |-> MinOf(Coordinate(coords, 2)), max_lon |-> MaxOf(Coordinate(coords, 2)),
     energy_source |-> Some(QueryDefault), limit |-> AnalyticsLimit]

\* [g for g in generators if point_in_polygon(g["lat"], g["lon"], coords)]
FilterByPolygonNone(generators, coords) == generators
FilterByPolygon(generators, coords) ==
    LET Inside(d) == PointInPolygon(d.lat, d.lon, coords)
    IN SelectSeq(generators, Inside)

RECURSIVE SumCapacity(_)
SumCapacity(dicts) ==
    IF dicts = <<>> THEN 0 ELSE Head(dicts).capacity_mw + SumCapacity(Tail(dicts))

Analytics(filtered) ==
    LET IsSolar(d) == d.energy_source = SolarCode
        IsWind(d) == d.energy_source = WindCode
        solar_generators == SelectSeq(filtered, IsSolar)
        wind_generators == SelectSeq(filtered, IsWind)
    IN [total_generators |-> Len(filtered),
        solar_count |-> Len(solar_generators),
        wind_count |-> Len(wind_generators),
        solar_capacity_mw |-> SumCapacity(solar_generators),
        wind_capacity_mw |-> SumCapacity(wind_generators),
        total_capacity_mw |-> SumCapacity(filtered)]

\* the located, unlocated and zero-capacity generators of the source
Generator(source, capacity, latitude, longitude) ==
    [energy_source |-> source, nameplate_capacity_mw |-> capacity,
     latitude |-> latitude, longitude |-> longitude]

UpstreamGenerators ==
    {Generator(src, 25, Some(35), Some(-95)) : src \in {SolarCode, WindCode}}
    \cup {Generator(src, 25, Some(35), Some(-85)) : src \in {SolarCode, WindCode}}
    \cup {Generator(src, 0, Some(35), Some(-95)) : src \in {SolarCode, WindCode}}
    \cup {Generator(src, 25, Some(0), Some(0)) : src \in {SolarCode, WindCode}}
    \cup {Generator(src, 25, None, None) : src \in {SolarCode, WindCode}}
    \cup {Generator(src, 25, Some(40), Some(-90)) : src \in {SolarCode, WindCode}}

Box(min_lat, max_lat, min_lon, max_lon) ==
    [min_lat |-> min_lat, max_lat |-> max_lat, min_lon |-> min_lon,
     max_lon |-> max_lon]
Boxes == {Box(30, 40, -100, -90), Box(35, 35, -95, -95), Box(-5, 5, -5, 5)}
EnergySourceArgs == {None, Some(SolarCode), Some(WindCode), Some("HYD")}
Limits == {1, DefaultLimit}

ExampleTriangle == <<<<30, -100>>, <<40, -100>>, <<30, -80>>>>
OriginSquare == <<<<-5, -5>>, <<5, -5>>, <<5, 5>>, <<-5, 5>>>>
Polygons == {ExampleRectangle, ExampleTriangle, OriginSquare}

InitGeo ==
    /\ geo_pc = "call"
    /\ geo_generators = <<>>
    /\ geo_stats = NoStats
    /\ geo_upstream \in SeqsUpTo(UpstreamGenerators, MaxGens)
    /\ geo_failing \in {None, Some(SolarCode), Some(WindCode)}
    /\ \/ /\ geo_call = "bounds"
          /\ geo_coords = <<>>
          /\ \E b \in Boxes, src \in EnergySourceArgs, lim \in Limits :
                geo_args = [min_lat |-> b.min_lat, max_lat |-> b.max_lat,
                            min_lon |-> b.min_lon, max_lon |-> b.max_lon,
                            energy_source |-> src, limit |-> lim]
       \/ /\ geo_call = "polygon"
          /\ geo_args = NoBounds
          /\ geo_coords \in Polygons

GetGeneratorsInBounds ==
    /\ geo_pc = "call" /\ geo_call = "bounds"
    /\ geo_generators' = GeneratorsInBounds(geo_upstream, geo_failing, geo_args)
    /\ geo_pc' = "done"
    /\ UNCHANGED <<geo_upstream, geo_failing, geo_call, geo_args, geo_coords,
                   geo_stats>>
    /\ UNCHANGED notGeo

GetPolygonAnalytics ==
    /\ geo_pc = "call" /\ geo_call = "polygon"
    /\ geo_generators' =
          GeneratorsInBounds(geo_upstream, geo_failing, BoundingBox(geo_coords))
    /\ geo_stats' = Analytics(FilterByPolygon(geo_generators', geo_coords))
    /\ geo_pc' = "done"
    /\ UNCHANGED <<geo_upstream, geo_failing, geo_call, geo_args, geo_coords>>
    /\ UNCHANGED notGeo

NextGeo == GetGeneratorsInBounds \/ GetPolygonAnalytics

InitGeoSpec ==
    InitGeo /\ IdleFetch /\ IdleRetry /\ IdleQuery /\ IdleMap /\ IdlePip
    /\ IdleId /\ IdlePaginate /\ IdlePages /\ IdleTwo /\ IdleAgg /\ IdleCoords

SpecGeo == InitGeoSpec /\ [][NextGeo]_vars

(* ------------------------------------------------------------------ *)
(* Claims about the geographic filters and the aggregation            *)
(* ------------------------------------------------------------------ *)
BoundsDone == geo_pc = "done" /\ geo_call = "bounds"
PolygonDone == geo_pc = "done" /\ geo_call = "polygon"

Located(g) == g.latitude # None /\ g.longitude # None

\* the generators the handler fetched: the pages of the sources that did
\* not fail
FetchedGenerators ==
    LET sources == SourceList(geo_args.energy_source)
    IN UNION {Range(CapacityPage(geo_upstream, sources[i], geo_args.limit)) :
                i \in {k \in 1..Len(sources) : geo_failing # Some(sources[k])}}

\* C15: the bounding-box filter is an inclusive range test on both axes and
\* nothing else: a fetched generator that has a latitude and a longitude is
\* kept by get_generators_in_bounds if and only if
\* min_lat <= latitude <= max_lat and min_lon <= longitude <= max_lon.
C15_BoundsFilterIsRangeTest ==
    BoundsDone =>
        \A g \in FetchedGenerators :
            Located(g) =>
                (ToDict(g) \in Range(geo_generators) <=> InRange(g, geo_args))

\* for generators of positive capacity and non-zero coordinates the filter
\* is the inclusive range test
BoundsFilterOnPositiveCapacity ==
    BoundsDone =>
        \A g \in FetchedGenerators :
            (HasLocation(g) /\ g.nameplate_capacity_mw > 0) =>
                (ToDict(g) \in Range(geo_generators) <=> InRange(g, geo_args))

LocatedUpstream == SelectSeq(geo_upstream, Located)
InsidePolygon(g) ==
    PointInPolygon(g.latitude[1], g.longitude[1], geo_coords)

\* C19: polygon filtering is determined by the exact test alone: when no
\* fetch fails, the bounding-box prefilter of get_polygon_analytics removes
\* no generator with coordinates that point_in_polygon classifies as
\* inside, and the aggregates are those of the generators that
\* point_in_polygon alone keeps.
C19_PrefilterKeepsInside ==
    (PolygonDone /\ geo_failing = None) =>
        /\ \A i \in 1..Len(LocatedUpstream) :
              InsidePolygon(LocatedUpstream[i])
                  => ToDict(LocatedUpstream[i]) \in Range(geo_generators)
        /\ geo_stats =
              Analytics(FilterByPolygon(ToDicts(LocatedUpstream), geo_coords))

\* the range test itself removes no inside generator: a generator inside
\* the polygon is within the vertex extrema, and it is kept when it is a
\* wind generator of positive capacity and non-zero coordinates
ExtremaContainInside ==
    PolygonDone =>
        \A i \in 1..Len(LocatedUpstream) :
            LET g == LocatedUpstream[i] IN
            InsidePolygon(g) =>
                /\ InRange(g, BoundingBox(geo_coords))
                /\ (geo_failing = None /\ g.energy_source = WindCode
                      /\ HasLocation(g) /\ g.nameplate_capacity_mw > 0)
                     => ToDict(g) \in Range(geo_generators)

NoGeneratorPasses ==
    \A i \in 1..Len(geo_generators) :
        ~PointInPolygon(geo_generators[i].lat, geo_generators[i].lon, geo_coords)

\* C20: aggregation over an empty set is not an error and gives all-zero
\* aggregates: when no generator passes the filters, get_polygon_analytics
\* returns total_generators, solar_count, wind_count and the solar, wind
\* and total capacity all equal to 0.
C20_EmptyAggregatesZero ==
    /\ (geo_pc = "call" /\ geo_call = "polygon") => ENABLED GetPolygonAnalytics
    /\ (PolygonDone /\ NoGeneratorPasses) =>
          /\ geo_stats.total_generators = 0
          /\ geo_stats.solar_count = 0
          /\ geo_stats.wind_count = 0
          /\ geo_stats.solar_capacity_mw = 0
          /\ geo_stats.wind_capacity_mw = 0
          /\ geo_stats.total_capacity_mw = 0

\* generators passed the bounding box and none is inside the polygon
C20_Witness ==
    /\ PolygonDone /\ geo_generators # <<>> /\ NoGeneratorPasses
    /\ geo_stats = NoStats

(* ------------------------------------------------------------------ *)
(* point_in_polygon on malformed polygons                             *)
(* ------------------------------------------------------------------ *)
HorizontalEdgeAt(lat, polygon) ==
    \E i \in 1..Len(polygon) :
        /\ polygon[i][1] = lat
        /\ polygon[Succ(i, Len(polygon))][1] = lat
        /\ polygon[i] # polygon[Succ(i, Len(polygon))]

\* C23: point_in_polygon never crashes on a malformed polygon: for every
\* point and every list of vertex pairs (repeated vertices, horizontal
\* edges, collinear or self-intersecting lists) it returns a boolean and
\* never divides by zero.
C23_NeverDividesByZero ==
    /\ pip_pc # "raised"
    /\ pip_pc = "done" => pip_inside \in BOOLEAN

\* a vertex list with a repeated vertex and a horizontal edge level with
\* the test point
C23_Witness ==
    /\ pip_pc = "done"
    /\ ~Distinct(pip_polygon)
    /\ HorizontalEdgeAt(pip_lat, pip_polygon)

(* ------------------------------------------------------------------ *)
(* The retry budget of _request                                       *)
(* ------------------------------------------------------------------ *)
\* C28: for every sequence of attempt outcomes (429 responses and
\* transport failures mixed), a call that made an attempt makes at most
\* max_retries attempts and sleeps at most max_retries - 1 times, never
\* after its last attempt; the delay after a 429 on attempt index i is 2^i
\* whatever the earlier outcomes were; the total delay is at most
\* 2^(max_retries - 1) - 1.
C28_RetryBudget ==
    outcomes # <<>> =>
        /\ Len(outcomes) <= max_retries
        /\ Len(sleeps) <= max_retries - 1
        /\ \A k \in 1..Len(sleeps) :
              /\ sleeps[k][1] = k - 1
              /\ sleeps[k][1] < max_retries - 1
              /\ Is429(outcomes[k]) => sleeps[k][2] = Pow2(k - 1)
        /\ SumDelays(sleeps) <= Pow2(max_retries - 1) - 1

\* transport failure, 429, transport failure, 429 with max_retries = 4
C28_Witness ==
    /\ max_retries = 4 /\ Len(outcomes) = 4
    /\ IsTransportFailure(outcomes[1]) /\ Is429(outcomes[2])
    /\ IsTransportFailure(outcomes[3]) /\ Is429(outcomes[4])
    /\ r_pc = "raised" /\ r_result = "EIARateLimitError"
    /\ sleeps = << <<0, 1>>, <<1, 2>>, <<2, 1>> >>

(* ------------------------------------------------------------------ *)
(* The generator identifier                                           *)
(* ------------------------------------------------------------------ *)
Separator == "-"

\* f"{g.plant_id}-{g.generator_id}"
GeneratorId(plant_id, generator_id) == plant_id \o <<Separator>> \o generator_id

\* plant ids and generator ids: strings over a letter and the separator
IdChars == {"a", Separator}
IdStrings == SeqsUpTo(IdChars, MaxIdLen)

InitId ==
    /\ id_pc = "call"
    /\ id_first \in IdStrings \X IdStrings
    /\ id_second \in IdStrings \X IdStrings
    /\ id_ids = <<<<>>, <<>>>>

\* the identifiers of two generators of one response
BuildIds ==
    /\ id_pc = "call"
    /\ id_ids' = <<GeneratorId(id_first[1], id_first[2]),
                   GeneratorId(id_second[1], id_second[2])>>
    /\ id_pc' = "done"
    /\ UNCHANGED <<id_first, id_second>>
    /\ UNCHANGED notId

NextId == BuildIds

InitIdSpec ==
    InitId /\ IdleFetch /\ IdleRetry /\ IdleQuery /\ IdleMap /\ IdlePip
    /\ IdleGeo /\ IdlePaginate /\ IdlePages /\ IdleTwo /\ IdleAgg /\ IdleCoords

SpecId == InitIdSpec /\ [][NextId]_vars

\* C29: the identifier is a sound deduplication key: two generators get
\* the same identifier if and only if they have the same (plant id,
\* generator id) pair, for all ids, including ids that contain the
\* separator or are empty.
C29_IdentifierIsInjective ==
    id_pc = "done" => (id_ids[1] = id_ids[2] <=> id_first = id_second)

HasSeparator(str) == \E i \in 1..Len(str) : str[i] = Separator

\* the key is sound when no plant id contains the separator
IdentifierInjectiveOnPlainPlantIds ==
    (id_pc = "done" /\ ~HasSeparator(id_first[1]) /\ ~HasSeparator(id_second[1]))
        => (id_ids[1] = id_ids[2] <=> id_first = id_second)


(* ------------------------------------------------------------------ *)
(* Laziness of get_all_data                                           *)
(* ------------------------------------------------------------------ *)
RECURSIVE SumSeq(_)
SumSeq(s) == IF s = <<>> THEN 0 ELSE Head(s) + SumSeq(Tail(s))

\* the returned counts of the pages received before the n-th
CountBefore(n) == SumSeq(SubSeq(received, 1, n - 1))

\* the consumer has taken record m, and the n-th page holds it
HoldsRecord(n, m) ==
    /\ n \in 1..Len(requests)
    /\ requests[n] < m
    /\ m <= requests[n] + received[n]

\* C26: get_all_data is lazy.  No request is issued before the consumer
\* asks for the first record; whenever n requests were issued, the consumer
\* has taken every record of the pages before the n-th; and a consumer that
\* stops after taking m records leaves the generator with the page that holds
\* record m as the last page requested.
C26_FetchIsLazy ==
    /\ pc = "created" => requests = <<>> /\ yielded = <<>>
    /\ Len(received) = Len(requests)
    /\ requests # <<>> =>
          /\ Len(yielded) >= CountBefore(Len(requests))
          /\ Len(yielded) <= SumSeq(received)
          /\ SubSeq(yielded, 1, CountBefore(Len(requests)))
                = PageData(0, CountBefore(Len(requests)))
    /\ pc = "closed" => HoldsRecord(Len(requests), Len(yielded))

\* a consumer that stopped in the second page of a source with three pages
C26_Witness ==
    /\ pc = "closed"
    /\ Len(requests) = 2
    /\ Len(yielded) = page_size + 1
    /\ src_total > 2 * page_size
    /\ page_size >= 2


(* ------------------------------------------------------------------ *)
(* utils.pagination.paginate                                          *)
(* ------------------------------------------------------------------ *)
\* what fetch_func returns: a PaginatedResponse (as BaseEndpoint._fetch_data
\* builds it), a raw dictionary with a total, a raw dictionary without one
ResponseKinds == {"paginated", "dict", "dict_no_total"}

\* fetch_func(offset=offset, limit=page_size) against a source of
\* pg_src_total records
FetchFunc(kind, off, limit) ==
    {[kind |-> kind,
      data |-> PageData(off, n),
      total |-> IF kind = "dict_no_total" THEN None ELSE Some(pg_src_total),
      offset |-> IF kind = "paginated" THEN off ELSE 0] :
        n \in PageCounts(pg_src_total, pg_src_full, off, limit)}

\* 'response.get("response", {}).get("total", 0)'
DictTotalUnknown(resp, off) ==
    IF resp.total = None THEN off + Len(resp.data) + 1 ELSE resp.total[1]
DictTotal(resp, off) == IF resp.total = None THEN 0 ELSE resp.total[1]

\* PaginatedResponse.has_more, and "has_more = offset + len(data) < total"
HasMore(resp, off) ==
    IF resp.kind = "paginated"
    THEN resp.offset + Len(resp.data) < resp.total[1]
    ELSE off + Len(resp.data) < DictTotal(resp, off)

InitPaginate ==
    /\ pg_kind \in ResponseKinds
    /\ pg_page_size \in 1..MaxPage
    /\ pg_max_records \in {None} \cup {Some(n) : n \in 0..MaxCap}
    /\ pg_src_total \in 0..MaxTotal
    /\ pg_src_full \in BOOLEAN
    /\ pg_pc = "created"
    /\ pg_offset = 0 /\ pg_total_fetched = 0 /\ pg_response = NoResponse
    /\ pg_idx = 0 /\ pg_yielded = <<>> /\ pg_requests = <<>>
    /\ pg_received = <<>>

\* first next(): "offset = 0; total_fetched = 0", entering the while loop
PgStart ==
    /\ pg_pc = "created"
    /\ pg_offset' = 0
    /\ pg_total_fetched' = 0
    /\ pg_pc' = "fetch"
    /\ UNCHANGED <<pg_kind, pg_page_size, pg_max_records, pg_src_total,
                   pg_src_full, pg_response, pg_idx, pg_yielded, pg_requests,
                   pg_received>>
    /\ UNCHANGED notPaginate

\* "response = fetch_func(offset=offset, limit=page_size, **kwargs)", the
\* reading of data and has_more, "if not data: break"
PgFetch ==
    /\ pg_pc = "fetch"
    /\ pg_requests' = Append(pg_requests, pg_offset)
    /\ \E resp \in FetchFunc(pg_kind, pg_offset, pg_page_size) :
          /\ pg_response' = resp
          /\ pg_received' = Append(pg_received, Len(resp.data))
          /\ IF resp.data = <<>>
             THEN pg_pc' = "done" /\ pg_idx' = 0
             ELSE pg_pc' = "yield" /\ pg_idx' = 1
    /\ UNCHANGED <<pg_kind, pg_page_size, pg_max_records, pg_src_total,
                   pg_src_full, pg_offset, pg_total_fetched, pg_yielded>>
    /\ UNCHANGED notPaginate

\* fetch_func raises: the exception leaves the generator, which is finished
PgFetchFails ==
    /\ pg_pc = "fetch"
    /\ pg_requests' = Append(pg_requests, pg_offset)
    /\ pg_pc' = "failed"
    /\ UNCHANGED <<pg_kind, pg_page_size, pg_max_records, pg_src_total,
                   pg_src_full, pg_offset, pg_total_fetched, pg_response,
                   pg_idx, pg_yielded, pg_received>>
    /\ UNCHANGED notPaginate

\* "yield item"
PgYield ==
    /\ pg_pc = "yield"
    /\ pg_yielded' = Append(pg_yielded, pg_response.data[pg_idx])
    /\ pg_pc' = "suspended"
    /\ UNCHANGED <<pg_kind, pg_page_size, pg_max_records, pg_src_total,
                   pg_src_full, pg_offset, pg_total_fetched, pg_response,
                   pg_idx, pg_requests, pg_received>>
    /\ UNCHANGED notPaginate

\* next() on the suspended generator: "total_fetched += 1", the cap check,
\* the next item, or "if not has_more or len(data) < page_size: break" and
\* "offset += len(data)"
PgResume ==
    /\ pg_pc = "suspended"
    /\ pg_total_fetched' = pg_total_fetched + 1
    /\ IF CapReached(pg_max_records, pg_total_fetched + 1)
       THEN pg_pc' = "done" /\ UNCHANGED <<pg_idx, pg_offset>>
       ELSE IF pg_idx < Len(pg_response.data)
       THEN pg_pc' = "yield" /\ pg_idx' = pg_idx + 1 /\ UNCHANGED pg_offset
       ELSE IF \/ ~HasMore(pg_response, pg_offset)
               \/ ShortPage(pg_response.data, pg_page_size)
       THEN pg_pc' = "done" /\ UNCHANGED <<pg_idx, pg_offset>>
       ELSE /\ pg_pc' = "fetch"
            /\ pg_offset' = NextOffset(pg_offset, pg_response.data)
            /\ UNCHANGED pg_idx
    /\ UNCHANGED <<pg_kind, pg_page_size, pg_max_records, pg_src_total,
                   pg_src_full, pg_response, pg_yielded, pg_requests,
                   pg_received>>
    /\ UNCHANGED notPaginate

\* the consumer stops iterating and drops the suspended generator
PgClose ==
    /\ pg_pc = "suspended"
    /\ pg_pc' = "closed"
    /\ UNCHANGED <<pg_kind, pg_page_size, pg_max_records, pg_src_total,
                   pg_src_full, pg_offset, pg_total_fetched, pg_response,
                   pg_idx, pg_yielded, pg_requests, pg_received>>
    /\ UNCHANGED notPaginate

NextPaginate ==
    PgStart \/ PgFetch \/ PgFetchFails \/ PgYield \/ PgResume \/ PgClose

InitPaginateSpec ==
    InitPaginate /\ IdleFetch /\ IdleRetry /\ IdleQuery /\ IdleMap /\ IdlePip
    /\ IdleGeo /\ IdleId /\ IdlePages /\ IdleTwo /\ IdleAgg /\ IdleCoords

SpecPaginate == InitPaginateSpec /\ [][NextPaginate]_vars

\* the generator ended by itself, without an error and without the cap
PgExhausted ==
    /\ pg_pc = "done"
    /\ ~CapReached(pg_max_records, pg_total_fetched)

\* C30: paginate over raw dictionaries stops after a page whenever
\* offset + returned count is not below the response's total, a missing total
\* being read as 0: over dictionaries without a total it issues exactly one
\* request and yields records of the first page only (all of them unless the
\* cap or the consumer ends the fetch earlier), even when that page is full
\* and the source holds more records.
C30_MissingTotalStopsAfterFirstPage ==
    /\ (pg_kind # "paginated" /\ pg_pc = "fetch" /\ pg_requests # <<>>) =>
          pg_offset < DictTotal(pg_response, pg_requests[Len(pg_requests)])
    /\ pg_kind = "dict_no_total" =>
          /\ Len(pg_requests) <= 1
          /\ (pg_requests # <<>> /\ pg_pc # "failed") =>
                /\ pg_requests = <<0>>
                /\ pg_response.total = None
                /\ Len(pg_yielded) <= Len(pg_response.data)
                /\ pg_yielded = SubSeq(pg_response.data, 1, Len(pg_yielded))
                /\ PgExhausted => pg_yielded = pg_response.data

\* a full first page of a larger source, no cap: the fetch is over after it
C30_Witness ==
    /\ pg_kind = "dict_no_total"
    /\ pg_max_records = None
    /\ pg_pc = "done"
    /\ pg_page_size = 2
    /\ pg_src_total > 2
    /\ pg_yielded = <<1, 2>>
    /\ pg_requests = <<0>>


(* ------------------------------------------------------------------ *)
(* get_all_data over _request: every page request is one _request call *)
(* ------------------------------------------------------------------ *)
MaxPageRetries == 2

notFetchRetry ==
    <<queryVars, mapVars, pipVars, geoVars,
      idVars, pgVars, twoVars, aggVars, coVars>>
notTwo ==
    <<fetchVars, retryVars, queryVars, mapVars, pipVars,
      geoVars, idVars, pgVars, pagesVars, aggVars, coVars>>
notAgg ==
    <<fetchVars, retryVars, queryVars, mapVars, pipVars,
      geoVars, idVars, pgVars, pagesVars, twoVars, coVars>>
notCoords ==
    <<fetchVars, retryVars, queryVars, mapVars, pipVars,
      geoVars, idVars, pgVars, pagesVars, twoVars, aggVars>>

\* "for attempt in range(max_retries)" of a new _request call: the loop
\* variable is local to the call and starts at 0 whatever earlier calls used
CarriedAttempt(used) == used
FreshAttempt(used) == 0

InitFetchRetry ==
    /\ InitFetch
    /\ max_retries \in 0..MaxPageRetries
    /\ attempt = 0 /\ outcomes = <<>> /\ sleeps = <<>>
    /\ r_pc = "idle" /\ r_result = "none"
    /\ prev_attempts = 0

\* "response = self.get_data(...)": get_data builds the pair list and enters
\* _request
BeginRequest ==
    /\ pc = "request"
    /\ Len(requests) <= MaxTotal + 1
    /\ pc' = "requesting"
    /\ LET params == BuildParams(PageArgs(page_size, offset), ApiKey, page_size)
       IN  requests' = Append(requests, ParamInt(params, K_offset, 0))
    /\ attempt' = FreshAttempt(prev_attempts)
    /\ outcomes' = <<>> /\ sleeps' = <<>>
    /\ r_pc' = "loop" /\ r_result' = "none"
    /\ UNCHANGED <<page_size, max_records, src_total, src_full, offset,
                   total_fetched, response, idx, yielded, received>>
    /\ UNCHANGED <<max_retries, prev_attempts>>
    /\ UNCHANGED notFetchRetry

\* _request returned the parsed body: "data = response.get(...)",
\* "if not data: break"
DeliverPage ==
    /\ pc = "requesting"
    /\ r_pc = "returned" /\ r_result = "response"
    /\ LET params == BuildParams(PageArgs(page_size, offset), ApiKey, page_size)
       IN  \E resp \in RemoteResponses(params) :
                /\ response' = resp
                /\ received' = Append(received, Len(resp.data))
                /\ IF resp.data = <<>>
                   THEN pc' = "done" /\ idx' = 0
                   ELSE pc' = "yield" /\ idx' = 1
    /\ prev_attempts' = Max(prev_attempts, Len(outcomes))
    /\ attempt' = 0 /\ outcomes' = <<>> /\ sleeps' = <<>>
    /\ r_pc' = "idle" /\ r_result' = "none"
    /\ UNCHANGED <<page_size, max_records, src_total, src_full, offset,
                   total_fetched, yielded, requests>>
    /\ UNCHANGED max_retries
    /\ UNCHANGED notFetchRetry

\* _request raised, or returned None so that 'response.get' raises
\* AttributeError: the exception leaves the generator, which is finished
PropagateError ==
    /\ pc = "requesting"
    /\ \/ /\ r_pc = "raised"
          /\ UNCHANGED <<r_pc, r_result>>
       \/ /\ r_pc = "returned" /\ r_result = "None"
          /\ r_pc' = "raised" /\ r_result' = "AttributeError"
    /\ pc' = "failed"
    /\ UNCHANGED <<page_size, max_records, src_total, src_full, offset,
                   total_fetched, response, idx, yielded, requests, received>>
    /\ UNCHANGED <<max_retries, attempt, outcomes, sleeps, prev_attempts>>
    /\ UNCHANGED notFetchRetry

NextFetchRetry ==
    \/ Start \/ BeginRequest \/ Attempt \/ FallThrough \/ DeliverPage
    \/ PropagateError \/ Yield \/ Resume \/ Close

InitFetchRetrySpec ==
    InitFetchRetry /\ IdleQuery /\ IdleMap /\ IdlePip /\ IdleGeo
    /\ IdleId /\ IdlePaginate /\ IdleTwo /\ IdleAgg /\ IdleCoords

SpecFetchRetry == InitFetchRetrySpec /\ [][NextFetchRetry]_vars

\* the last attempt of the running _request call
LastOutcome == outcomes[Len(outcomes)]

\* the call ended because the attempts ran out
Exhausted ==
    /\ r_pc = "raised"
    /\ outcomes # <<>>
    /\ Is429(LastOutcome) \/ IsTransportFailure(LastOutcome)

C27_FailureStates ==
    \* the attempts of a page request are counted from 0
    /\ pc = "requesting" => Len(outcomes) <= max_retries
    /\ (pc = "requesting" /\ r_pc = "loop") => attempt = Len(outcomes)
    \* retry exhaustion takes all max_retries attempts of this page request
    /\ (pc \in {"requesting", "failed"} /\ Exhausted) =>
          Len(outcomes) = max_retries
    \* a fatal status ends the page request at once
    /\ (pc \in {"requesting", "failed"} /\ r_pc = "raised" /\ outcomes # <<>>
            /\ IsFatalStatus(LastOutcome)) =>
          r_result = ErrorOfStatus(LastOutcome.code)
    \* the consumer gets the error after exactly the records of pages 1..k-1
    /\ pc = "failed" =>
          /\ r_pc = "raised"
          /\ Len(received) = Len(requests) - 1
          /\ \A n \in 1..Len(received) : received[n] = page_size
          /\ yielded = PageData(0, SumSeq(received))

C27_FailureSteps ==
    \* a failed page request ends the fetch: nothing more is yielded or asked
    /\ (pc = "requesting" /\ r_pc = "raised") =>
          (pc' = "failed" /\ UNCHANGED <<yielded, requests, r_result>>)
    /\ pc = "failed" => UNCHANGED <<pc, yielded, requests>>

\* C27: when the request for page k of a get_all_data fetch fails (a fatal
\* status, or retry exhaustion) the error reaches the consumer after exactly
\* the records of pages 1..k-1 were yielded, no further page request is
\* issued, and every page request has its own budget of max_retries attempts.
C27_PageFailurePropagates == []C27_FailureStates /\ [][C27_FailureSteps]_vars

\* the second page request is exhausted after the first one used every
\* attempt but succeeded on the last
C27_Witness ==
    /\ pc = "failed"
    /\ Len(requests) = 2
    /\ max_retries = 2
    /\ prev_attempts = 2
    /\ Exhausted
    /\ Len(outcomes) = 2
    /\ yielded = PageData(0, page_size)


(* ------------------------------------------------------------------ *)
(* The cursor of get_all_data and of paginate                         *)
(* ------------------------------------------------------------------ *)
\* either a get_all_data fetch (over _request) or a paginate fetch runs
InitCursor ==
    \/ InitFetchRetry /\ IdlePaginate
    \/ InitPaginate /\ IdleFetch /\ IdleRetry /\ IdlePages

InitCursorSpec ==
    InitCursor /\ IdleQuery /\ IdleMap /\ IdlePip /\ IdleGeo
    /\ IdleId /\ IdleTwo /\ IdleAgg /\ IdleCoords

NextCursor == NextFetchRetry \/ NextPaginate

SpecCursor == InitCursorSpec /\ [][NextCursor]_vars

\* reqs: the offsets sent; recv: the returned counts of the pages received;
\* advanced: the generator is about to send its next request
CursorStates(reqs, recv, off, emitted, advanced) ==
    /\ Len(recv) \in {Len(reqs), Len(reqs) - 1}
    /\ \A k \in 1..Len(reqs) : reqs[k] = SumSeq(SubSeq(recv, 1, k - 1))
    /\ emitted <= SumSeq(recv)
    /\ off = IF advanced THEN SumSeq(recv)
             ELSE IF reqs = <<>> THEN 0
             ELSE reqs[Len(reqs)]

\* the offset moves only past a page that was received
CursorSteps(reqs, recv, off, offNext) ==
    offNext # off =>
        /\ reqs # <<>>
        /\ Len(recv) = Len(reqs)
        /\ offNext = off + recv[Len(recv)]

C25_CursorStates ==
    /\ CursorStates(requests, received, offset, Len(yielded), pc = "request")
    /\ total_fetched <= Len(yielded)
    /\ pc = "failed" => Len(received) = Len(requests) - 1
    /\ CursorStates(pg_requests, pg_received, pg_offset, Len(pg_yielded),
                    pg_pc = "fetch")
    /\ pg_total_fetched <= Len(pg_yielded)
    /\ pg_pc = "failed" => Len(pg_received) = Len(pg_requests) - 1

C25_CursorSteps ==
    /\ CursorSteps(requests, received, offset, offset')
    /\ CursorSteps(pg_requests, pg_received, pg_offset, pg_offset')

\* C25: in get_all_data and in paginate the offset sent with the k-th page
\* request equals the sum of the returned counts of the k-1 pages received
\* before it, the emitted count never exceeds that sum plus the count of the
\* current page, and the offset is advanced only after a page was received.
C25_CursorInvariant == []C25_CursorStates /\ [][C25_CursorSteps]_vars

\* a third request, sent by either function, after two full pages
C25_WitnessFetch ==
    /\ Len(requests) = 3 /\ requests[3] = 2 * page_size /\ page_size >= 2
    /\ pc = "failed"
C25_WitnessPaginate ==
    /\ Len(pg_requests) = 3 /\ pg_requests[3] = 2 * pg_page_size
    /\ pg_page_size >= 2 /\ pg_pc = "suspended"


(* ------------------------------------------------------------------ *)
(* Two get_all_data generators of one client, interleaved             *)
(* ------------------------------------------------------------------ *)
MaxTwoTotal == 3
MaxTwoPage == 2
MaxTwoCap == 2

\* "offset" and "total_fetched" are locals of the generator's own frame; the
\* client object holds the configuration and the session only
ClientCursor(f) == 1
OwnCursor(f) == f

\* the records of a page of the route of fetch f
RouteData(f, off, n) == [i \in 1..n |-> <<f, off + i>>]

InitTwo ==
    /\ t_page_size \in 1..MaxTwoPage
    /\ t_max_records \in [Fetches -> {None} \cup {Some(n) : n \in 1..MaxTwoCap}]
    /\ t_src_total \in [Fetches -> 0..MaxTwoTotal]
    /\ t_pc = [f \in Fetches |-> "created"]
    /\ t_offset = [f \in Fetches |-> 0]
    /\ t_total_fetched = [f \in Fetches |-> 0]
    /\ t_response = [f \in Fetches |-> <<>>]
    /\ t_idx = [f \in Fetches |-> 0]
    /\ t_yielded = [f \in Fetches |-> <<>>]
    /\ t_requests = [f \in Fetches |-> <<>>]
    /\ t_in_flight = [f \in Fetches |-> 0]

\* first next() on generator f
TwoStart(f) ==
    /\ t_pc[f] = "created"
    /\ t_offset' = [t_offset EXCEPT ![OwnCursor(f)] = 0]
    /\ t_total_fetched' = [t_total_fetched EXCEPT ![OwnCursor(f)] = 0]
    /\ t_pc' = [t_pc EXCEPT ![f] = "request"]
    /\ UNCHANGED <<t_page_size, t_max_records, t_src_total, t_response, t_idx,
                   t_yielded, t_requests, t_in_flight>>
    /\ UNCHANGED notTwo

\* "self.get_data(..., length=page_size, offset=offset)": the request leaves
TwoSend(f) ==
    /\ t_pc[f] = "request"
    /\ Len(t_requests[f]) <= MaxTwoTotal + 1
    /\ t_requests' = [t_requests EXCEPT
                        ![f] = Append(@, t_offset[OwnCursor(f)])]
    /\ t_in_flight' = [t_in_flight EXCEPT ![f] = @ + 1]
    /\ t_pc' = [t_pc EXCEPT ![f] = "in_flight"]
    /\ UNCHANGED <<t_page_size, t_max_records, t_src_total, t_offset,
                   t_total_fetched, t_response, t_idx, t_yielded>>
    /\ UNCHANGED notTwo

\* the answer arrives: "data = ...", "if not data: break"
TwoReceive(f) ==
    /\ t_pc[f] = "in_flight"
    /\ LET off == t_requests[f][Len(t_requests[f])]
       IN  \E n \in PageCounts(t_src_total[f], TRUE, off, t_page_size) :
                /\ t_response' = [t_response EXCEPT ![f] = RouteData(f, off, n)]
                /\ IF n = 0
                   THEN /\ t_pc' = [t_pc EXCEPT ![f] = "done"]
                        /\ t_idx' = [t_idx EXCEPT ![f] = 0]
                   ELSE /\ t_pc' = [t_pc EXCEPT ![f] = "yield"]
                        /\ t_idx' = [t_idx EXCEPT ![f] = 1]
    /\ t_in_flight' = [t_in_flight EXCEPT ![f] = @ - 1]
    /\ UNCHANGED <<t_page_size, t_max_records, t_src_total, t_offset,
                   t_total_fetched, t_yielded, t_requests>>
    /\ UNCHANGED notTwo

\* "yield record"
TwoYield(f) ==
    /\ t_pc[f] = "yield"
    /\ t_yielded' = [t_yielded EXCEPT ![f] = Append(@, t_response[f][t_idx[f]])]
    /\ t_pc' = [t_pc EXCEPT ![f] = "suspended"]
    /\ UNCHANGED <<t_page_size, t_max_records, t_src_total, t_offset,
                   t_total_fetched, t_response, t_idx, t_requests, t_in_flight>>
    /\ UNCHANGED notTwo

\* next() on the suspended generator f
TwoResume(f) ==
    /\ t_pc[f] = "suspended"
    /\ LET c == OwnCursor(f)
           fetched == t_total_fetched[c] + 1
       IN  /\ t_total_fetched' = [t_total_fetched EXCEPT ![c] = fetched]
           /\ IF CapReached(t_max_records[f], fetched)
              THEN /\ t_pc' = [t_pc EXCEPT ![f] = "done"]
                   /\ UNCHANGED <<t_idx, t_offset>>
              ELSE IF t_idx[f] < Len(t_response[f])
              THEN /\ t_pc' = [t_pc EXCEPT ![f] = "yield"]
                   /\ t_idx' = [t_idx EXCEPT ![f] = @ + 1]
                   /\ UNCHANGED t_offset
              ELSE IF ShortPage(t_response[f], t_page_size)
              THEN /\ t_pc' = [t_pc EXCEPT ![f] = "done"]
                   /\ UNCHANGED <<t_idx, t_offset>>
              ELSE /\ t_pc' = [t_pc EXCEPT ![f] = "request"]
                   /\ t_offset' = [t_offset EXCEPT
                                     ![c] = NextOffset(@, t_response[f])]
                   /\ UNCHANGED t_idx
    /\ UNCHANGED <<t_page_size, t_max_records, t_src_total, t_response,
                   t_yielded, t_requests, t_in_flight>>
    /\ UNCHANGED notTwo

NextTwo ==
    \/ \E f \in Fetches : TwoStart(f)
    \/ \E f \in Fetches : TwoSend(f)
    \/ \E f \in Fetches : TwoReceive(f)
    \/ \E f \in Fetches : TwoYield(f)
    \/ \E f \in Fetches : TwoResume(f)

InitTwoSpec ==
    InitTwo /\ IdleFetch /\ IdleRetry /\ IdleQuery /\ IdleMap /\ IdlePip
    /\ IdleGeo /\ IdleId /\ IdlePaginate /\ IdlePages /\ IdleAgg /\ IdleCoords

SpecTwo == InitTwoSpec /\ [][NextTwo]_vars

\* what a fetch that runs alone requests and yields, page by page
RECURSIVE SoloRun(_, _, _, _, _, _, _)
SoloRun(f, size, cap, total, off, reqs, out) ==
    LET n == Min(size, Max(total - off, 0))
        sent == Append(reqs, off)
        capped == {j \in 1..n : CapReached(cap, Len(out) + j)}
    IN  IF n = 0 THEN [requests |-> sent, yielded |-> out]
        ELSE IF capped # {}
        THEN [requests |-> sent,
              yielded |-> out \o RouteData(f, off, MinOf(capped))]
        ELSE IF n < size
        THEN [requests |-> sent, yielded |-> out \o RouteData(f, off, n)]
        ELSE SoloRun(f, size, cap, total, off + n, sent,
                     out \o RouteData(f, off, n))

Solo(f) ==
    SoloRun(f, t_page_size, t_max_records[f], t_src_total[f], 0, <<>>, <<>>)

IsPrefix(s, t) == Len(s) <= Len(t) /\ s = SubSeq(t, 1, Len(s))

\* C24: two get_all_data fetches on one client that run interleaved do not
\* interfere: each has at most one page request in flight, each keeps its own
\* offset and emitted count, and each requests the offsets and yields the
\* records it would if it ran alone.
C24_FetchesDoNotInterfere ==
    \A f \in Fetches :
        /\ t_in_flight[f] \in {0, 1}
        /\ t_in_flight[f] = 1 <=> t_pc[f] = "in_flight"
        /\ IsPrefix(t_requests[f], Solo(f).requests)
        /\ IsPrefix(t_yielded[f], Solo(f).yielded)
        /\ t_pc[f] = "done" =>
              /\ t_requests[f] = Solo(f).requests
              /\ t_yielded[f] = Solo(f).yielded
        /\ t_pc[f] \in {"yield", "suspended", "in_flight"} =>
              t_offset[f] = t_requests[f][Len(t_requests[f])]
        /\ t_total_fetched[f] <= Len(t_yielded[f])
        /\ Len(t_yielded[f]) <= t_total_fetched[f] + 1

\* both fetches are in their second page at once, at different offsets
C24_Witness ==
    /\ t_pc[1] = "in_flight" /\ t_pc[2] = "suspended"
    /\ Len(t_requests[1]) = 2 /\ Len(t_requests[2]) = 2
    /\ t_page_size = 1
    /\ Len(t_yielded[2]) = 2 /\ Len(t_yielded[1]) = 1
    /\ t_max_records[1] = None


(* ------------------------------------------------------------------ *)
(* The loops of get_realtime_generation, get_capacity_by_state and    *)
(* get_generators                                                     *)
(* ------------------------------------------------------------------ *)
MaxKeys == 3

AggCalls == {"realtime", "by_state", "generators"}

\* the codes a caller may name
KeysOf(call) ==
    CASE call = "realtime" -> {"CISO", "ERCO", "PJM"}
      [] call = "by_state" -> {"CA", "TX", "FL"}
      [] OTHER -> {"SUN", "WND", "WAT"}

\* regions.split(","), states.split(","), and
\* '[energy_source] if energy_source else ["SUN", "WND", "WAT"]'
KeyLists(call) ==
    IF call = "generators"
    THEN {<<k>> : k \in KeysOf(call)} \cup {<<"SUN", "WND", "WAT">>}
    ELSE SeqsUpTo(KeysOf(call), MaxKeys) \ {<<>>}

\* the fetches made for one key, in the order of the code
FetchesOf(call) ==
    IF call = "generators" THEN <<"capacity">> ELSE <<"solar", "wind">>

\* what the fetches may raise: a client error, the AttributeError of a
\* request that returned None, the ValueError of a record that does not map
FetchExceptions == {"EIARequestError", "AttributeError", "ValueError"}

\* "except Exception as e": every exception a fetch raises is an Exception
CaughtClientErrorsOnly(exception) == exception = "EIARequestError"
Caught(exception) == TRUE

\* the data of the remote routes (values in MWh and MW)
GenerationData(region, fuel) ==
    IF region = "PJM" /\ fuel = "solar" THEN <<>>
    ELSE <<[value |-> IF fuel = "solar" THEN 10 ELSE 3,
            respondent_name |-> <<region, "name">>]>>

CapacityData(state, fuel) ==
    IF state = "FL" /\ fuel = "wind" THEN <<>>
    ELSE IF fuel = "solar" THEN <<5, 7>> ELSE <<4>>

SourceData(source) ==
    <<Generator(source, 25, Some(35), Some(-95)),
      Generator(source, 5, Some(35), Some(-85)),
      Generator(source, 25, None, None)>>

\* the first fetch of the key that raises, 0 if none does
FirstFailing(call, key, failing) ==
    LET bad == {n \in 1..Len(FetchesOf(call)) :
                    <<key, FetchesOf(call)[n]>> \in failing}
    IN  IF bad = {} THEN 0 ELSE MinOf(bad)

\* the body of the try block of get_realtime_generation
RegionSummary(region) ==
    LET solar == GenerationData(region, "solar")
        wind == GenerationData(region, "wind")
        solar_val == IF solar # <<>> THEN solar[1].value ELSE 0
        wind_val == IF wind # <<>> THEN wind[1].value ELSE 0
        solar_name == IF solar # <<>> THEN solar[1].respondent_name
                      ELSE region
    IN  [key |-> region, name |-> solar_name, solar |-> solar_val,
         wind |-> wind_val, total |-> solar_val + wind_val, count |-> 0]

\* the body of the try block of get_capacity_by_state
StateCapacity(state) ==
    LET solar == CapacityData(state, "solar")
        wind == CapacityData(state, "wind")
        solar_mw == SumSeq(solar)
        wind_mw == SumSeq(wind)
    IN  [key |-> state, name |-> state, solar |-> solar_mw, wind |-> wind_mw,
         total |-> solar_mw + wind_mw, count |-> Len(solar) + Len(wind)]

\* the body of the try block of get_generators:
\* "g.nameplate_capacity_mw >= min_capacity and g.latitude and g.longitude"
SourceGenerators(source, min_capacity) ==
    LET Kept(g) == g.nameplate_capacity_mw >= min_capacity /\ HasLocation(g)
    IN  ToDicts(SelectSeq(SourceData(source), Kept))

Entries(call, key, min_capacity) ==
    CASE call = "realtime" -> <<RegionSummary(key)>>
      [] call = "by_state" -> <<StateCapacity(key)>>
      [] OTHER -> SourceGenerators(key, min_capacity)

\* "for key in list: try: ... except Exception as e: print(...)"
RECURSIVE Loop(_, _, _, _, _, _)
Loop(call, keys, failing, exception, min_capacity, results) ==
    IF keys = <<>> THEN [results |-> results, raised |-> ""]
    ELSE IF FirstFailing(call, Head(keys), failing) # 0
    THEN IF Caught(exception)
         THEN Loop(call, Tail(keys), failing, exception, min_capacity, results)
         ELSE [results |-> <<>>, raised |-> exception]
    ELSE Loop(call, Tail(keys), failing, exception, min_capacity,
              results \o Entries(call, Head(keys), min_capacity))

InitAgg ==
    /\ agg_call \in AggCalls
    /\ agg_keys \in KeyLists(agg_call)
    /\ agg_failing \in SUBSET (KeysOf(agg_call) \X Range(FetchesOf(agg_call)))
    /\ agg_exception \in FetchExceptions
    /\ agg_min_capacity \in IF agg_call = "generators" THEN {0, 10} ELSE {0}
    /\ agg_pc = "call"
    /\ agg_results = <<>>
    /\ agg_raised = ""

RunLoop ==
    LET out == Loop(agg_call, agg_keys, agg_failing, agg_exception,
                    agg_min_capacity, <<>>)
    IN  /\ agg_results' = out.results
        /\ agg_raised' = out.raised
        /\ agg_pc' = IF out.raised = "" THEN "returned" ELSE "raised"
        /\ UNCHANGED <<agg_call, agg_keys, agg_failing, agg_exception,
                       agg_min_capacity>>
        /\ UNCHANGED notAgg

GetRealtimeGeneration == agg_pc = "call" /\ agg_call = "realtime" /\ RunLoop
GetCapacityByState == agg_pc = "call" /\ agg_call = "by_state" /\ RunLoop
GetGenerators == agg_pc = "call" /\ agg_call = "generators" /\ RunLoop

NextAgg == GetRealtimeGeneration \/ GetCapacityByState \/ GetGenerators

InitAggSpec ==
    InitAgg /\ IdleFetch /\ IdleRetry /\ IdleQuery /\ IdleMap /\ IdlePip
    /\ IdleGeo /\ IdleId /\ IdlePaginate /\ IdlePages /\ IdleTwo /\ IdleCoords

SpecAgg == InitAggSpec /\ [][NextAgg]_vars

\* every fetch of the key succeeds
AllFetched(key) ==
    \A n \in 1..Len(FetchesOf(agg_call)) :
        <<key, FetchesOf(agg_call)[n]>> \notin agg_failing

\* the keys of the input whose fetches all succeed, in input order
Succeeded == SelectSeq(agg_keys, AllFetched)

\* position of the first occurrence of a key in the input
PositionOf(key) == MinOf({n \in 1..Len(agg_keys) : agg_keys[n] = key})

\* C22: in the loops of get_realtime_generation, get_capacity_by_state and
\* get_generators a failing fetch for one region, state or source does not
\* abort the batch and is not propagated: the result holds, in input order,
\* one entry for every region (state) whose fetches all succeeded, the
\* generators of every source whose fetch succeeded, and nothing for a key
\* with a failed fetch.
C22_FailuresAreIsolated ==
    agg_pc # "call" =>
        /\ agg_pc = "returned" /\ agg_raised = ""
        /\ agg_call \in {"realtime", "by_state"} =>
              /\ Len(agg_results) = Len(Succeeded)
              /\ \A n \in 1..Len(Succeeded) :
                    /\ agg_results[n].key = Succeeded[n]
                    /\ agg_results[n] = Entries(agg_call, Succeeded[n], 0)[1]
        /\ agg_call = "generators" =>
              /\ \A n \in 1..Len(agg_results) :
                    agg_results[n].energy_source \in Range(Succeeded)
              /\ \A key \in Range(Succeeded) :
                    LET FromKey(d) == d.energy_source = key
                    IN  SelectSeq(agg_results, FromKey)
                            = SourceGenerators(key, agg_min_capacity)
              /\ \A m, n \in 1..Len(agg_results) :
                    m < n => PositionOf(agg_results[m].energy_source)
                                <= PositionOf(agg_results[n].energy_source)

\* the region in the middle of three fails on its second fetch
C22_Witness ==
    /\ agg_pc = "returned"
    /\ agg_call = "realtime"
    /\ agg_keys = <<"CISO", "ERCO", "PJM">>
    /\ agg_failing = {<<"ERCO", "wind">>}
    /\ agg_exception = "ValueError"
    /\ Len(agg_results) = 2


(* ------------------------------------------------------------------ *)
(* get_polygon_analytics: decoding of the coordinates parameter       *)
(* ------------------------------------------------------------------ *)
MaxCoords == 3

\* JSON values: a number, an (empty) object, a list
JsonNumber == [t |-> "number", items |-> <<>>]
JsonObject == [t |-> "object", items |-> <<>>]
JsonList(items) == [t |-> "list", items |-> items]

\* the elements a JSON list of coordinates may hold: a number, or a list of
\* zero, one or two numbers
CoordLats == {30, 40}
CoordLons == {-100, -90}
CoordElements ==
    {JsonNumber, JsonList(<<>>)}
        \cup {JsonList(<<lat>>) : lat \in CoordLats}
        \cup {JsonList(<<lat, lon>>) : lat \in CoordLats, lon \in CoordLons}

CoordInputs ==
    {NotJson, JsonNumber, JsonObject}
        \cup {JsonList(items) : items \in SeqsUpTo(CoordElements, MaxCoords)}

\* "except json.JSONDecodeError: raise HTTPException(status_code=400, ...)"
DecodeError(value) == IF value.t = "not_json" THEN "HTTP 400" ELSE ""

\* "c[k]" for the elements of coords, in order: the first exception raised
\* by "[c[k] for c in coords]" (k counted from 0), "" if there is none
SubscriptError(value, k) ==
    IF value.t = "number" THEN "TypeError"
    ELSE LET bad == {n \in 1..Len(value.items) :
                        \/ value.items[n].t = "number"
                        \/ Len(value.items[n].items) <= k}
         IN  IF bad = {} THEN ""
             ELSE IF value.items[MinOf(bad)].t = "number" THEN "TypeError"
             ELSE "IndexError"

\* "min(lats)" of an empty list
MinError(value) == IF value.items = <<>> THEN "ValueError" ELSE ""

\* the first error of lines 253-262 of the handler, "" if there is none
CoordinatesError(value) ==
    IF DecodeError(value) # "" THEN DecodeError(value)
    ELSE IF SubscriptError(value, 0) # "" THEN SubscriptError(value, 0)
    ELSE IF SubscriptError(value, 1) # "" THEN SubscriptError(value, 1)
    ELSE MinError(value)

\* coords as the pairs the rest of the handler reads
PairsOf(value) ==
    [n \in 1..Len(value.items) |->
        <<value.items[n].items[1], value.items[n].items[2]>>]

\* what the remote holds when the handler is called
CoordUpstream ==
    <<Generator(SolarCode, 25, Some(35), Some(-95)),
      Generator(WindCode, 25, Some(35), Some(-95))>>

InitCoords ==
    /\ co_input \in CoordInputs
    /\ co_pc = "call"
    /\ co_outcome = ""
    /\ co_stats = NoStats

\* the handler, called with a coordinates text
GetPolygonAnalyticsOf ==
    /\ co_pc = "call"
    /\ co_pc' = "done"
    /\ IF CoordinatesError(co_input) # ""
       THEN /\ co_outcome' = CoordinatesError(co_input)
            /\ UNCHANGED co_stats
       ELSE /\ co_outcome' = "HTTP 200"
            /\ co_stats' =
                 LET coords == PairsOf(co_input)
                 IN  Analytics(FilterByPolygon(
                        GeneratorsInBounds(CoordUpstream, None,
                                           BoundingBox(coords)), coords))
    /\ UNCHANGED co_input
    /\ UNCHANGED notCoords

NextCoords == GetPolygonAnalyticsOf

InitCoordsSpec ==
    InitCoords /\ IdleFetch /\ IdleRetry /\ IdleQuery /\ IdleMap /\ IdlePip
    /\ IdleGeo /\ IdleId /\ IdlePaginate /\ IdlePages /\ IdleTwo /\ IdleAgg

SpecCoords == InitCoordsSpec /\ [][NextCoords]_vars

\* a JSON list of at least one element, every element a list of two numbers
WellFormedPairs(value) ==
    /\ value.t = "list"
    /\ value.items # <<>>
    /\ \A n \in 1..Len(value.items) :
          /\ value.items[n].t = "list"
          /\ Len(value.items[n].items) = 2

\* C21: get_polygon_analytics answers HTTP 400 for every coordinates input
\* that is not a well-formed JSON sequence of (lat, lon) pairs: text that is
\* not JSON, an object, a list of scalars, an empty list, pairs with a
\* missing element; no such input produces any other error.
C21_MalformedCoordinatesGive400 ==
    (co_pc = "done" /\ ~WellFormedPairs(co_input)) => co_outcome = "HTTP 400"

\* what the handler does: HTTP 400 for text that is not JSON, and only then
OnlyUndecodableTextGives400 ==
    co_pc = "done" =>
        /\ co_outcome = "HTTP 400" <=> co_input = NotJson
        /\ co_outcome = "HTTP 200" <=> WellFormedPairs(co_input)
        /\ (co_input.t = "list" /\ co_input.items = <<>>) =>
              co_outcome = "ValueError"

====
